---- MODULE Spec2Model ----
(***************************************************************************)
(* Execution pipeline of the agent-testing API: the result store           *)
(* (app/db/repositories/job_repository.py), the batch execution engine     *)
(* (app/services/execution.py), the remote agent client's session map      *)
(* (app/services/agent.py) and the in-process job queue                    *)
(* (app/core/queue.py).                                                    *)
(*                                                                         *)
(* The specifications share the variables:                                 *)
(*   Spec         one execute_batch call run by a worker, every external   *)
(*                call (agent, scraper, validator) free to succeed or to   *)
(*                raise;                                                   *)
(*   SpecPair     two execute_batch calls interleaving on one event loop;  *)
(*   SpecRepoJob  the repository's job row written with any arguments;     *)
(*   SpecRepoTest the repository's test result row written with any        *)
(*                arguments;                                               *)
(*   SpecQueueOne the task queue limited to one worker;                    *)
(*   SpecQueue    the task queue with its workers, the callers of          *)
(*                 start()/stop() and tasks that span scheduling steps;    *)
(*   SpecAgent    the agent client called with any arguments and any       *)
(*                answer of the remote side;                               *)
(*   SpecScrape   ScraperService.scrape_urls over a list of URLs;          *)
(*   SpecParams   ExecutionService._update_validation_params;              *)
(*   SpecContains ValidationService._validate_contains;                    *)
(*   SpecUrls     ScraperService.extract_urls over a text;                 *)
(*   SpecApi      the status and results endpoints requested while an      *)
(*                execute_batch call runs;                                 *)
(*   SpecQueueRun the task queue while nobody calls stop(), with fair      *)
(*                workers;                                                 *)
(*   SpecService  a submitted job from enqueue_job through a worker and    *)
(*                execute_batch, with start() and stop() called meanwhile; *)
(*   SpecServiceFair  the same with every step of execute_batch            *)
(*                eventually taken.                                        *)
(***************************************************************************)
EXTENDS Integers, Sequences, FiniteSets, TLC

VARIABLES
    jobs,               \* table jobs: job id -> row
    test_results,       \* table test_results: sequence of rows, id = index
    turn_results,       \* table turn_results: sequence of rows, id = index
    validation_results, \* table validation_results: sequence of rows
    sessions,           \* AgentService.sessions: the live session ids
    tests,              \* the `tests` argument of each execute_batch call
    ctx,                \* the locals and the position of each execute_batch call
    faults,             \* number of external failures injected so far
    running,            \* TaskQueue.running
    queue,              \* TaskQueue.queue: the job ids waiting, oldest first
    workers,            \* TaskQueue.workers: the worker tasks not yet ended
    max_workers,        \* TaskQueue.max_workers
    active_jobs,        \* TaskQueue.active_jobs: its keys
    wstate,             \* each worker task: its position and its job
    cstate,             \* each caller of start()/stop(): its position
    jstate,             \* each job handed to enqueue_job: where it is
    agent,              \* AgentService called directly: live ids and last call
    scrape,             \* a scrape_urls call: its arguments, position, results
    pcall,              \* _update_validation_params calls on one definition
    vcall,              \* a _validate_contains call: arguments and result
    ucall,              \* an extract_urls call: its text and its result
    qcall               \* the answer of a status or results request in hand

dbvars == <<jobs, test_results, turn_results, validation_results>>
enginevars == <<jobs, test_results, turn_results, validation_results,
                sessions, tests, ctx, faults>>
queuevars == <<running, queue, workers, max_workers, active_jobs, wstate,
               cstate, jstate>>
servicevars == <<agent, scrape, pcall, vcall, ucall, qcall>>
vars == <<jobs, test_results, turn_results, validation_results, sessions,
          tests, ctx, faults, running, queue, workers, max_workers,
          active_jobs, wstate, cstate, jstate, agent, scrape, pcall, vcall,
          ucall, qcall>>

---------------------------------------------------------------------------
(* Bounds of the model. *)
MaxSize == 4
MaxFaults == 3
MaxCount == 2
MaxPool == 2
MaxQueueJobs == 2
MaxText == 2
MaxUrls == 3
MaxSessions == 3
MaxPieces == 4

(* Program constants. *)
max_retries == 3
BackoffMs == 1000
LatencyMs == 1

JobIds == {"A"}
PairIds == {"A", "B"}
WorkerIds == 1..MaxPool
QueueJobs == 1..MaxQueueJobs
Callers == {"lifecycle", "admin"}

(* Optional values: None and Some(v). *)
None == <<>>
Some(v) == <<v>>
OptOf(S) == {None} \cup {Some(v) : v \in S}

(* Python floats that are quotients are kept exact, as num/den. *)
Ratio(n, d) == [num |-> n, den |-> d]
RatEq(a, b) == a.num * b.den = b.num * a.den

RECURSIVE SumSeq(_)
SumSeq(s) == IF s = <<>> THEN 0 ELSE Head(s) + SumSeq(Tail(s))

---------------------------------------------------------------------------
(* The result store: JobRepository. *)

create_job(total_tests) ==
    [status |-> "queued", total_tests |-> total_tests,
     completed_tests |-> 0, failed_tests |-> 0,
     current_test_id |-> None, current_turn |-> None,
     progress |-> Ratio(0, 1), error |-> None,
     started_at |-> TRUE, completed_at |-> FALSE]

MutJobProgress(job) ==
    Ratio(job.completed_tests * 100, job.total_tests)

JobProgress(job) ==
    Ratio((job.completed_tests + job.failed_tests) * 100, job.total_tests)

update_job_status(job, status, current_test_id, current_turn, completed_tests, failed_tests, error) ==
    LET j1 == [job EXCEPT !.status = status]
        j2 == IF current_test_id # None
              THEN [j1 EXCEPT !.current_test_id = current_test_id] ELSE j1
        j3 == IF current_turn # None
              THEN [j2 EXCEPT !.current_turn = current_turn] ELSE j2
        j4 == IF completed_tests # None
              THEN [j3 EXCEPT !.completed_tests = completed_tests[1]] ELSE j3
        j5 == IF failed_tests # None
              THEN [j4 EXCEPT !.failed_tests = failed_tests[1]] ELSE j4
        j6 == IF error # None THEN [j5 EXCEPT !.error = error] ELSE j5
        j7 == IF j6.total_tests > 0
              THEN [j6 EXCEPT !.progress = JobProgress(j6)] ELSE j6
    IN  IF status \in {"completed", "failed"}
        THEN [j7 EXCEPT !.completed_at = TRUE] ELSE j7

create_test_result(job_id, test_id) ==
    [job_id |-> job_id, test_id |-> test_id, status |-> "running",
     total_validations |-> 0, passed_validations |-> 0,
     failed_validations |-> 0, pass_rate |-> Ratio(0, 1),
     avg_response_time |-> Ratio(0, 1), error |-> None,
     started_at |-> TRUE, completed_at |-> FALSE]

TestPassRate(tr) == Ratio(tr.passed_validations * 100, tr.total_validations)

MutUpdateTestResult(tr, status, total_validations, passed_validations, failed_validations, avg_response_time, error) ==
    IF error # None THEN [tr EXCEPT !.status = status, !.error = error]
    ELSE [tr EXCEPT !.status = status]

update_test_result(tr, status, total_validations, passed_validations, failed_validations, avg_response_time, error) ==
    LET t1 == [tr EXCEPT !.status = status]
        t2 == IF total_validations # None
              THEN [t1 EXCEPT !.total_validations = total_validations[1]] ELSE t1
        t3 == IF passed_validations # None
              THEN [t2 EXCEPT !.passed_validations = passed_validations[1]] ELSE t2
        t4 == IF failed_validations # None
              THEN [t3 EXCEPT !.failed_validations = failed_validations[1]] ELSE t3
        t5 == IF avg_response_time # None
              THEN [t4 EXCEPT !.avg_response_time = avg_response_time[1]] ELSE t4
        t6 == IF error # None THEN [t5 EXCEPT !.error = error] ELSE t5
        t7 == IF t6.total_validations > 0
              THEN [t6 EXCEPT !.pass_rate = TestPassRate(t6)] ELSE t6
    IN  IF status \in {"completed", "failed"}
        THEN [t7 EXCEPT !.completed_at = TRUE] ELSE t7

create_turn_result(test_result_id, order, scraped_content, response_time_ms) ==
    [test_result_id |-> test_result_id, order |-> order,
     scraped_content |-> scraped_content,
     response_time_ms |-> response_time_ms,
     validations_total |-> 0, validations_passed |-> 0,
     validations_failed |-> 0]

ValidationsOf(vrs, turn_result_id) ==
    {k \in DOMAIN vrs : vrs[k].turn_result_id = turn_result_id}

TurnCounts(turn, vrs, turn_result_id) ==
    LET total == Cardinality(ValidationsOf(vrs, turn_result_id))
        passed == Cardinality({k \in ValidationsOf(vrs, turn_result_id) :
                                  vrs[k].is_passed})
    IN  [turn EXCEPT !.validations_total = total,
                     !.validations_passed = passed,
                     !.validations_failed = total - passed]

MutCreateValidationResult(trs, vrs, turn_result_id, validation_id, is_passed, score, details) ==
    <<trs, Append(vrs, [turn_result_id |-> turn_result_id,
                        validation_id |-> validation_id,
                        is_passed |-> is_passed, score |-> score,
                        details |-> details])>>

(* create_validation_result: the new tables <<turn_results, validation_results>>.
   The row is inserted and committed, then the parent turn's counts are
   recomputed from the rows and committed; no await separates the two. *)
create_validation_result(trs, vrs, turn_result_id, validation_id, is_passed, score, details) ==
    LET row == [turn_result_id |-> turn_result_id,
                validation_id |-> validation_id, is_passed |-> is_passed,
                score |-> score, details |-> details]
        vrs2 == Append(vrs, row)
        trs2 == IF turn_result_id \in DOMAIN trs
                THEN [trs EXCEPT ![turn_result_id] =
                         TurnCounts(@, vrs2, turn_result_id)]
                ELSE trs
    IN  <<trs2, vrs2>>

(* The ids in S, ascending: the order in which a query returns the rows. *)
RECURSIVE Ascending(_)
Ascending(S) ==
    IF S = {} THEN <<>>
    ELSE LET m == CHOOSE x \in S : \A y \in S : x <= y
         IN  <<m>> \o Ascending(S \ {m})

MutAddTurns(trs, acc, ids) ==
    IF ids = <<>> THEN acc
    ELSE [acc EXCEPT !.total_response_time = @ + trs[Head(ids)].response_time_ms,
                     !.total_turn_count = @ + Len(ids)]

(* get_batch_results, inner loop: the metrics after the turn rows `ids`. *)
RECURSIVE AddTurns(_, _, _)
AddTurns(trs, acc, ids) ==
    IF ids = <<>> THEN acc
    ELSE AddTurns(trs,
                  [acc EXCEPT !.total_response_time =
                                  @ + trs[Head(ids)].response_time_ms,
                              !.total_turn_count = @ + 1],
                  Tail(ids))

(* get_batch_results, outer loop: the metrics after the test rows `ids`. *)
RECURSIVE AddTests(_, _, _, _)
AddTests(tsts, trs, acc, ids) ==
    IF ids = <<>> THEN acc
    ELSE LET r == Head(ids)
             turns == Ascending({t \in DOMAIN trs : trs[t].test_result_id = r})
             a1 == AddTurns(trs, acc, turns)
             a2 == [a1 EXCEPT !.total_validations =
                                  @ + tsts[r].total_validations,
                              !.passed_validations =
                                  @ + tsts[r].passed_validations]
         IN  AddTests(tsts, trs, a2, Tail(ids))

MutTurnResultModel(trs, vrs, t, include_scraped_content) ==
    LET ids == Ascending({v \in DOMAIN vrs : vrs[v].turn_result_id = t})
    IN  [order |-> trs[t].order,
         scraped_content |-> trs[t].scraped_content,
         response_time_ms |-> trs[t].response_time_ms,
         validations_total |-> trs[t].validations_total,
         validations_passed |-> trs[t].validations_passed,
         validations_failed |-> trs[t].validations_failed,
         validation_results |->
             [k \in DOMAIN ids |->
                 [validation_id |-> vrs[ids[k]].validation_id,
                  is_passed |-> vrs[ids[k]].is_passed,
                  score |-> vrs[ids[k]].score,
                  details |-> vrs[ids[k]].details]]]

(* get_batch_results, lines 353-376: the model of one turn row. *)
TurnResultModel(trs, vrs, t, include_scraped_content) ==
    LET ids == Ascending({v \in DOMAIN vrs : vrs[v].turn_result_id = t})
    IN  [order |-> trs[t].order,
         scraped_content |-> IF include_scraped_content
                             THEN trs[t].scraped_content ELSE None,
         response_time_ms |-> trs[t].response_time_ms,
         validations_total |-> trs[t].validations_total,
         validations_passed |-> trs[t].validations_passed,
         validations_failed |-> trs[t].validations_failed,
         validation_results |->
             [k \in DOMAIN ids |->
                 [validation_id |-> vrs[ids[k]].validation_id,
                  is_passed |-> vrs[ids[k]].is_passed,
                  score |-> vrs[ids[k]].score,
                  details |-> vrs[ids[k]].details]]]

(* get_batch_results, lines 385-397: the model of one test row. *)
TestResultModel(tsts, trs, vrs, r, include_scraped_content) ==
    LET ids == Ascending({t \in DOMAIN trs : trs[t].test_result_id = r})
    IN  [test_id |-> tsts[r].test_id,
         status |-> tsts[r].status,
         started_at |-> tsts[r].started_at,
         completed_at |-> tsts[r].completed_at,
         error |-> tsts[r].error,
         total_validations |-> tsts[r].total_validations,
         passed_validations |-> tsts[r].passed_validations,
         failed_validations |-> tsts[r].failed_validations,
         pass_rate |-> tsts[r].pass_rate,
         avg_response_time |-> tsts[r].avg_response_time,
         turn_results |->
             [k \in DOMAIN ids |->
                 TurnResultModel(trs, vrs, ids[k], include_scraped_content)]]

(* get_batch_results: None for an unknown job, else the report. *)
get_batch_results(jbs, tsts, trs, vrs, job_id, include_scraped_content) ==
    IF job_id \notin DOMAIN jbs THEN None
    ELSE LET rows == Ascending({r \in DOMAIN tsts : tsts[r].job_id = job_id})
             m == AddTests(tsts, trs,
                           [total_validations |-> 0, passed_validations |-> 0,
                            total_response_time |-> 0, total_turn_count |-> 0],
                           rows)
         IN  Some([status |-> jbs[job_id].status,
                   total_tests |-> jbs[job_id].total_tests,
                   completed_tests |-> jbs[job_id].completed_tests,
                   failed_tests |-> jbs[job_id].failed_tests,
                   total_validations |-> m.total_validations,
                   passed_validations |-> m.passed_validations,
                   failed_validations |->
                       m.total_validations - m.passed_validations,
                   pass_rate |->
                       IF m.total_validations > 0
                       THEN Ratio(m.passed_validations * 100,
                                  m.total_validations)
                       ELSE Ratio(0, 1),
                   avg_response_time |->
                       IF m.total_turn_count > 0
                       THEN Ratio(m.total_response_time, m.total_turn_count)
                       ELSE Ratio(0, 1),
                   started_at |-> jbs[job_id].started_at,
                   completed_at |-> jbs[job_id].completed_at,
                   error |-> jbs[job_id].error,
                   test_results |->
                       [k \in DOMAIN rows |->
                           TestResultModel(tsts, trs, vrs, rows[k],
                                           include_scraped_content)]])

(* get_batch_status, lines 289-317: None for an unknown job. *)
get_batch_status(jbs, job_id) ==
    IF job_id \notin DOMAIN jbs THEN None
    ELSE Some([status |-> jbs[job_id].status,
               started_at |-> jbs[job_id].started_at,
               completed_at |-> jbs[job_id].completed_at,
               progress |-> jbs[job_id].progress,
               total_tests |-> jbs[job_id].total_tests,
               completed_tests |-> jbs[job_id].completed_tests,
               failed_tests |-> jbs[job_id].failed_tests,
               current_test_id |-> jbs[job_id].current_test_id,
               current_turn |-> jbs[job_id].current_turn,
               error |-> jbs[job_id].error])

---------------------------------------------------------------------------
(* The remote agent client: AgentService.  Its session map is the set of
   its keys.  Each operator gives the map after the call, whether the call
   raised, the remote requests it made, and the session id it returned. *)

Fields == {"sf_org_domain", "sf_client_id", "sf_client_secret", "sf_agent_id"}

(* credentials.get(field): absent (None), the empty string, or a value. *)
Credentials == [Fields -> {"absent", "empty", "set"}]

(* all([org_domain, client_id, client_secret, agent_id]) *)
CredentialsOk(credentials) == \A f \in Fields : credentials[f] = "set"

(* A request is answered with status 200, with another status, or fails in
   transport; a session-open answer with status 200 may lack the id. *)
RemoteOutcomes == {"ok", "status", "raises"}
OpenOutcomes == {"ok", "status", "raises", "no_id"}

MutStartSession(map, credentials, token, open, session_id) ==
    IF token # "ok"
    THEN [sessions |-> map, raised |-> TRUE, requests |-> <<"token">>,
          session_id |-> None]
    ELSE IF open # "ok"
    THEN [sessions |-> map, raised |-> TRUE,
          requests |-> <<"token", "open">>, session_id |-> None]
    ELSE [sessions |-> map \cup {session_id}, raised |-> FALSE,
          requests |-> <<"token", "open">>, session_id |-> Some(session_id)]

(* start_session, lines 15-77; session_id is the id in the remote answer. *)
start_session(map, credentials, token, open, session_id) ==
    IF ~CredentialsOk(credentials)
    THEN [sessions |-> map, raised |-> TRUE, requests |-> <<>>,
          session_id |-> None]
    ELSE IF token # "ok"
    THEN [sessions |-> map, raised |-> TRUE, requests |-> <<"token">>,
          session_id |-> None]
    ELSE IF open # "ok"
    THEN [sessions |-> map, raised |-> TRUE,
          requests |-> <<"token", "open">>, session_id |-> None]
    ELSE [sessions |-> map \cup {session_id}, raised |-> FALSE,
          requests |-> <<"token", "open">>, session_id |-> Some(session_id)]

MutSendMessage(map, session_id, outcome) ==
    [sessions |-> map, raised |-> outcome # "ok",
     requests |-> <<"message">>]

(* send_message, lines 79-119. *)
send_message(map, session_id, outcome) ==
    IF session_id \notin map
    THEN [sessions |-> map, raised |-> TRUE, requests |-> <<>>]
    ELSE [sessions |-> map, raised |-> outcome # "ok",
          requests |-> <<"message">>]

MutEndSession(map, session_id, outcome) ==
    IF session_id \notin map
    THEN [sessions |-> map, raised |-> FALSE, requests |-> <<>>]
    ELSE [sessions |-> IF outcome = "ok" THEN map \ {session_id} ELSE map,
          raised |-> FALSE, requests |-> <<"delete">>]

(* end_session, lines 121-152: an unknown id is a no-op; for a known id the
   remote deletion is attempted, its failure is swallowed and the local
   record is removed. *)
end_session(map, session_id, outcome) ==
    IF session_id \notin map
    THEN [sessions |-> map, raised |-> FALSE, requests |-> <<>>]
    ELSE [sessions |-> map \ {session_id}, raised |-> FALSE,
          requests |-> <<"delete">>]

---------------------------------------------------------------------------
(* The batches submitted to execute_batch.  A test carries its credentials
   and its turns in order; a turn carries the number of validations attached
   to it.  The credentials of a batch are complete or lack the client
   secret. *)

FullCredentials == [f \in Fields |-> "set"]

BatchCredentials ==
    {FullCredentials, [FullCredentials EXCEPT !["sf_client_secret"] = "absent"]}

RECURSIVE TurnsWithin(_)
TurnsWithin(k) ==
    {<<>>} \cup
    UNION {{<<[validations |-> v]>> \o s : s \in TurnsWithin(k - 1 - v)} :
              v \in 0..(k - 1)}

RECURSIVE TotalValidations(_)
TotalValidations(turns) ==
    IF turns = <<>> THEN 0
    ELSE Head(turns).validations + TotalValidations(Tail(turns))

(* A test counts for one item, and so does each turn and each validation. *)
TestSize(t) == 1 + Len(t.turns) + TotalValidations(t.turns)

TestsWithin(k) ==
    IF k < 1 THEN {}
    ELSE [credentials : BatchCredentials, turns : TurnsWithin(k - 1)]

RECURSIVE BatchesWithin(_)
BatchesWithin(k) ==
    {<<>>} \cup
    UNION {{<<t>> \o b : b \in BatchesWithin(k - TestSize(t))} :
              t \in TestsWithin(k)}

RECURSIVE BatchSize(_)
BatchSize(b) == IF b = <<>> THEN 0 ELSE TestSize(Head(b)) + BatchSize(Tail(b))

(* The batches of at most MaxSize tests, turns and validations in all. *)
Batches == BatchesWithin(MaxSize)

---------------------------------------------------------------------------
(* The batch execution engine: ExecutionService.execute_batch, one action
   per step between two of its calls. *)

NewCtx ==
    [pc |-> "create_job", ti |-> 1, ui |-> 1, vi |-> 1,
     retry_count |-> 0, test_result |-> 0, turn_result |-> 0,
     session_id |-> None, response_times |-> <<>>,
     scraped_content |-> None, validation_result |-> None,
     passed_validations |-> 0, error |-> None,
     send_calls |-> 0, sleeps |-> 0,
     \* the start_session calls of the test and their remote requests
     start_calls |-> 0, requests |-> <<>>,
     \* what the scraping step of the last persisted turn did
     scrape |-> "none", scrape_calls |-> 0,
     \* history: <<test, turn>> where the try block raised (turn 0: session
     \* start), tests with a validation out of retries, error outside a try
     raised |-> {}, degraded |-> {}, batch_error |-> FALSE]

Job(j) == jobs[j]
Test(j) == tests[j][ctx[j].ti]
Turn(j) == Test(j).turns[ctx[j].ui]

SetCtx(j, c) == ctx' = [ctx EXCEPT ![j] = c]

(* The locals of one test's try block are dead once the test is over. *)
ForgetTest(c) ==
    [c EXCEPT !.ui = 1, !.vi = 1, !.retry_count = 0, !.test_result = 0,
              !.turn_result = 0, !.session_id = None, !.response_times = <<>>,
              !.scraped_content = None, !.validation_result = None,
              !.passed_validations = 0, !.error = None,
              !.send_calls = 0, !.sleeps = 0, !.start_calls = 0,
              !.requests = <<>>, !.scrape = "none", !.scrape_calls = 0]

(* Head of the validation loop of a turn, then of the turn loop. *)
ToValidation(c, turn, vi) ==
    IF vi <= turn.validations
    THEN [c EXCEPT !.vi = vi, !.retry_count = 0, !.validation_result = None,
                   !.pc = "validate"]
    ELSE [c EXCEPT !.vi = 1, !.ui = c.ui + 1, !.turn_result = 0,
                   !.scraped_content = None, !.validation_result = None,
                   !.retry_count = 0, !.passed_validations = 0,
                   !.send_calls = 0, !.sleeps = 0, !.pc = "next_turn"]

(* Line 40; when create_job raises (its commit fails) no row is stored and
   the error reaches the outer except. *)
CreateJob(j) ==
    /\ ctx[j].pc = "create_job"
    /\ \/ /\ jobs' = (j :> create_job(Len(tests[j]))) @@ jobs
          /\ SetCtx(j, [ctx[j] EXCEPT !.pc = "set_running"])
          /\ UNCHANGED faults
       \/ /\ faults < MaxFaults
          /\ faults' = faults + 1
          /\ SetCtx(j, [ctx[j] EXCEPT !.error = Some("create job"),
                                      !.batch_error = TRUE,
                                      !.pc = "batch_except"])
          /\ UNCHANGED jobs
    /\ UNCHANGED <<test_results, turn_results, validation_results, sessions,
                   tests>>

MutSetRunning(j) ==
    /\ ctx[j].pc = "set_running"
    /\ jobs' = [k \in DOMAIN jobs |->
                   update_job_status(jobs[k], "running", None, None, None,
                                     None, None)]
    /\ SetCtx(j, [ctx[j] EXCEPT !.pc = "next_test"])
    /\ UNCHANGED <<test_results, turn_results, validation_results, sessions,
                   tests, faults>>

SetRunning(j) ==
    /\ ctx[j].pc = "set_running"
    /\ jobs' = [jobs EXCEPT ![j] =
                   update_job_status(@, "running", None, None, None, None, None)]
    /\ SetCtx(j, [ctx[j] EXCEPT !.pc = "next_test"])
    /\ UNCHANGED <<test_results, turn_results, validation_results, sessions,
                   tests, faults>>

(* Lines 43-57: the job is pointed at the test and its TestResult is created;
   an error here (a test without test_id, create_test_result raising) is
   outside the test's try block and reaches the outer except. *)
BeginTest(j) ==
    /\ ctx[j].pc = "next_test"
    /\ ctx[j].ti <= Len(tests[j])
    /\ jobs' = [jobs EXCEPT ![j] =
                   update_job_status(@, "running", Some(ctx[j].ti), Some(0),
                                     None, None, None)]
    /\ \/ /\ test_results' = Append(test_results,
                                    create_test_result(j, ctx[j].ti))
          /\ SetCtx(j, [ctx[j] EXCEPT !.test_result = Len(test_results) + 1,
                                      !.pc = "start_session"])
          /\ UNCHANGED faults
       \/ /\ faults < MaxFaults
          /\ faults' = faults + 1
          /\ SetCtx(j, [ctx[j] EXCEPT !.error = Some("test setup"),
                                      !.batch_error = TRUE,
                                      !.pc = "batch_except"])
          /\ UNCHANGED test_results
    /\ UNCHANGED <<turn_results, validation_results, sessions, tests>>

(* AgentService.start_session, awaited at line 61. *)
StartSession(j) ==
    /\ ctx[j].pc = "start_session"
    /\ \E token \in RemoteOutcomes, open \in OpenOutcomes :
          LET r == start_session(sessions, Test(j).credentials, token, open,
                                 ctx[j].test_result)
              c1 == [ctx[j] EXCEPT !.start_calls = @ + 1,
                                   !.requests = r.requests]
          IN  /\ IF r.requests = <<>> \/ ~r.raised
                 THEN UNCHANGED faults
                 ELSE faults < MaxFaults /\ faults' = faults + 1
              /\ sessions' = r.sessions
              /\ SetCtx(j, IF r.raised
                           THEN [c1 EXCEPT
                                    !.error = Some(IF r.requests = <<>>
                                                   THEN "missing credentials"
                                                   ELSE "start_session"),
                                    !.raised = @ \cup {<<ctx[j].ti, 0>>},
                                    !.pc = "test_except"]
                           ELSE [c1 EXCEPT !.session_id = r.session_id,
                                           !.response_times = <<>>,
                                           !.ui = 1, !.pc = "next_turn"])
    /\ UNCHANGED <<jobs, test_results, turn_results, validation_results, tests>>

(* Lines 70-85: head of the turn loop. *)
BeginTurn(j) ==
    /\ ctx[j].pc = "next_turn"
    /\ ctx[j].ui <= Len(Test(j).turns)
    /\ jobs' = [jobs EXCEPT ![j] =
                   update_job_status(@, "running", None, Some(ctx[j].ui),
                                     None, None, None)]
    /\ SetCtx(j, [ctx[j] EXCEPT !.retry_count = 0, !.send_calls = 0,
                                !.sleeps = 0, !.pc = "send"])
    /\ UNCHANGED <<test_results, turn_results, validation_results, sessions,
                   tests, faults>>

MutSendFailed(c) ==
    IF c.retry_count + 1 > max_retries
    THEN [c EXCEPT !.send_calls = @ + 1, !.retry_count = @ + 1,
                   !.error = Some("send_message"),
                   !.raised = @ \cup {<<c.ti, c.ui>>},
                   !.pc = "test_except"]
    ELSE [c EXCEPT !.send_calls = @ + 1, !.retry_count = @ + 1,
                   !.pc = "send_sleep"]

(* Lines 95-100: send_message raised; the last failure is raised again. *)
SendFailed(c) ==
    IF c.retry_count + 1 >= max_retries
    THEN [c EXCEPT !.send_calls = @ + 1, !.retry_count = @ + 1,
                   !.error = Some("send_message"),
                   !.raised = @ \cup {<<c.ti, c.ui>>},
                   !.pc = "test_except"]
    ELSE [c EXCEPT !.send_calls = @ + 1, !.retry_count = @ + 1,
                   !.pc = "send_sleep"]

(* Lines 87-99: one pass of the send retry loop. *)
SendAttempt(j) ==
    /\ ctx[j].pc = "send"
    /\ \/ /\ SetCtx(j, [ctx[j] EXCEPT !.send_calls = @ + 1, !.pc = "scrape"])
          /\ UNCHANGED faults
       \/ /\ faults < MaxFaults
          /\ faults' = faults + 1
          /\ SetCtx(j, SendFailed(ctx[j]))
    /\ UNCHANGED <<jobs, test_results, turn_results, validation_results,
                   sessions, tests>>

(* Line 100: the backoff between two send attempts. *)
SendSleep(j) ==
    /\ ctx[j].pc = "send_sleep"
    /\ SetCtx(j, [ctx[j] EXCEPT !.sleeps = @ + 1, !.pc = "send"])
    /\ UNCHANGED <<jobs, test_results, turn_results, validation_results,
                   sessions, tests, faults>>

(* What extract_urls and scrape_urls do in a turn: the response names no
   URL, or the URLs are fetched and give content, or the fetch raises. *)
ScrapeOutcomes == {"no_urls", "scraped", "scrape_error"}

MutScrapeContent(outcome) ==
    [calls |-> IF outcome = "no_urls" THEN 0 ELSE 1,
     scraped_content |-> IF outcome = "scraped" THEN Some(<<"a">>) ELSE None,
     raised |-> outcome = "scrape_error"]

(* Lines 105-115: scrape_urls is called only when extract_urls found a URL,
   and an exception of the call is logged and dropped. *)
scrape_content(outcome) ==
    [calls |-> IF outcome = "no_urls" THEN 0 ELSE 1,
     scraped_content |-> IF outcome = "scraped" THEN Some(<<"a">>) ELSE None,
     raised |-> FALSE]

(* Lines 102-127: the response time is taken, the response is scraped when it
   names a URL (a scrape error is swallowed) and the turn is persisted.  The
   model's clock advances by LatencyMs in every send_message call and by
   BackoffMs in every backoff sleep. *)
PersistTurn(j, outcome) ==
    LET ms == LatencyMs * ctx[j].send_calls + BackoffMs * ctx[j].sleeps
        r == scrape_content(outcome)
        c1 == [ctx[j] EXCEPT !.response_times = Append(@, ms),
                             !.scraped_content = r.scraped_content,
                             !.scrape = outcome,
                             !.scrape_calls = r.calls]
    IN  /\ ctx[j].pc = "scrape"
        /\ IF outcome = "scrape_error"
           THEN faults < MaxFaults /\ faults' = faults + 1
           ELSE UNCHANGED faults
        /\ IF r.raised
           THEN /\ SetCtx(j, [c1 EXCEPT
                                 !.error = Some("scrape"),
                                 !.raised = @ \cup {<<ctx[j].ti, ctx[j].ui>>},
                                 !.pc = "test_except"])
                /\ UNCHANGED turn_results
           ELSE /\ turn_results' = Append(turn_results,
                       create_turn_result(ctx[j].test_result, ctx[j].ui,
                                          r.scraped_content, ms))
                /\ SetCtx(j, ToValidation(
                       [c1 EXCEPT !.turn_result = Len(turn_results) + 1,
                                  !.passed_validations = 0],
                       Turn(j), 1))
        /\ UNCHANGED <<jobs, test_results, validation_results, sessions, tests>>

VerdictOf(passed) ==
    [passed |-> passed, score |-> Some(IF passed THEN 10 ELSE 0),
     details |-> [kind |-> "verdict", retries |-> 0]]

(* Lines 159-163: the result recorded when validate raised max_retries times. *)
ExhaustedResult ==
    [passed |-> FALSE, score |-> Some(0),
     details |-> [kind |-> "retries_exhausted", retries |-> max_retries]]

MutValidateFailed(c) ==
    IF c.retry_count + 1 >= max_retries
    THEN [c EXCEPT !.retry_count = @ + 1, !.error = Some("validate"),
                   !.degraded = @ \cup {c.ti}, !.pc = "test_except"]
    ELSE [c EXCEPT !.retry_count = @ + 1, !.pc = "validate_sleep"]

(* Lines 154-165: validate raised; out of retries, a failing verdict is made. *)
ValidateFailed(c) ==
    IF c.retry_count + 1 >= max_retries
    THEN [c EXCEPT !.retry_count = @ + 1,
                   !.validation_result = Some(ExhaustedResult),
                   !.degraded = @ \cup {c.ti},
                   !.pc = "record_validation"]
    ELSE [c EXCEPT !.retry_count = @ + 1, !.pc = "validate_sleep"]

(* Lines 144-153: one pass of the validation retry loop. *)
ValidateAttempt(j) ==
    /\ ctx[j].pc = "validate"
    /\ \/ /\ \E passed \in BOOLEAN :
                SetCtx(j, [ctx[j] EXCEPT
                              !.validation_result = Some(VerdictOf(passed)),
                              !.pc = "record_validation"])
          /\ UNCHANGED faults
       \/ /\ faults < MaxFaults
          /\ faults' = faults + 1
          /\ SetCtx(j, ValidateFailed(ctx[j]))
    /\ UNCHANGED <<jobs, test_results, turn_results, validation_results,
                   sessions, tests>>

ValidateSleep(j) ==
    /\ ctx[j].pc = "validate_sleep"
    /\ SetCtx(j, [ctx[j] EXCEPT !.pc = "validate"])
    /\ UNCHANGED <<jobs, test_results, turn_results, validation_results,
                   sessions, tests, faults>>

(* Lines 167-186: the verdict is stored; then the next validation or turn. *)
RecordValidation(j) ==
    LET r == ctx[j].validation_result[1]
        tables == create_validation_result(turn_results, validation_results,
                      ctx[j].turn_result, ctx[j].vi, r.passed, r.score,
                      r.details)
        c1 == [ctx[j] EXCEPT !.passed_validations =
                                 IF r.passed THEN @ + 1 ELSE @]
    IN  /\ ctx[j].pc = "record_validation"
        /\ turn_results' = tables[1]
        /\ validation_results' = tables[2]
        /\ SetCtx(j, ToValidation(c1, Turn(j), ctx[j].vi + 1))
        /\ UNCHANGED <<jobs, test_results, sessions, tests, faults>>

(* Line 189: after the last turn. *)
EndSession(j) ==
    /\ ctx[j].pc = "next_turn"
    /\ ctx[j].ui > Len(Test(j).turns)
    /\ \E outcome \in RemoteOutcomes :
          sessions' = end_session(sessions, ctx[j].session_id[1],
                                  outcome).sessions
    /\ SetCtx(j, [ctx[j] EXCEPT !.pc = "complete_test"])
    /\ UNCHANGED <<jobs, test_results, turn_results, validation_results,
                   tests, faults>>

AvgResponseTime(response_times) ==
    IF response_times # <<>>
    THEN Ratio(SumSeq(response_times), Len(response_times))
    ELSE Ratio(0, 1)

(* Lines 191-212: the test is completed and counted. *)
MutCompleteTest(j) ==
    /\ ctx[j].pc = "complete_test"
    /\ jobs' = [jobs EXCEPT ![j] =
           update_job_status(@, "running", None, None,
               Some(jobs[j].completed_tests + 1), None, None)]
    /\ SetCtx(j, [ForgetTest(ctx[j]) EXCEPT !.ti = @ + 1, !.pc = "next_test"])
    /\ UNCHANGED <<test_results, turn_results, validation_results, sessions,
                   tests, faults>>

CompleteTest(j) ==
    /\ ctx[j].pc = "complete_test"
    /\ test_results' = [test_results EXCEPT ![ctx[j].test_result] =
           update_test_result(@, "completed", None, None, None,
               Some(AvgResponseTime(ctx[j].response_times)), None)]
    /\ jobs' = [jobs EXCEPT ![j] =
           update_job_status(@, "running", None, None,
               Some(jobs[j].completed_tests + 1), None, None)]
    /\ SetCtx(j, [ForgetTest(ctx[j]) EXCEPT !.ti = @ + 1, !.pc = "next_test"])
    /\ UNCHANGED <<turn_results, validation_results, sessions, tests, faults>>

MutFailTest(j) ==
    /\ ctx[j].pc = "test_except"
    /\ test_results' = [test_results EXCEPT ![ctx[j].test_result] =
           update_test_result(@, "failed", None, None, None, None,
                              ctx[j].error)]
    /\ jobs' = [jobs EXCEPT ![j] =
           update_job_status(@, "running", None, None, None,
               Some(jobs[j].failed_tests + 1), None)]
    /\ SetCtx(j, [ctx[j] EXCEPT !.pc = "batch_except"])
    /\ UNCHANGED <<turn_results, validation_results, sessions, tests, faults>>

MutFailUncounted(j) ==
    /\ ctx[j].pc = "test_except"
    /\ test_results' = [test_results EXCEPT ![ctx[j].test_result] =
           update_test_result(@, "failed", None, None, None, None,
                              ctx[j].error)]
    /\ jobs' = [jobs EXCEPT ![j] =
           update_job_status(@, "running", None, None, None, None, None)]
    /\ SetCtx(j, [ForgetTest(ctx[j]) EXCEPT !.ti = @ + 1, !.pc = "next_test"])
    /\ UNCHANGED <<turn_results, validation_results, sessions, tests, faults>>

(* Lines 214-236: the handler of the test's try block. *)
FailTest(j) ==
    /\ ctx[j].pc = "test_except"
    /\ test_results' = [test_results EXCEPT ![ctx[j].test_result] =
           update_test_result(@, "failed", None, None, None, None,
                              ctx[j].error)]
    /\ jobs' = [jobs EXCEPT ![j] =
           update_job_status(@, "running", None, None, None,
               Some(jobs[j].failed_tests + 1), None)]
    /\ SetCtx(j, [ForgetTest(ctx[j]) EXCEPT !.ti = @ + 1, !.pc = "next_test"])
    /\ UNCHANGED <<turn_results, validation_results, sessions, tests, faults>>

(* Line 239: after the last test. *)
FinishBatch(j) ==
    /\ ctx[j].pc = "next_test"
    /\ ctx[j].ti > Len(tests[j])
    /\ jobs' = [jobs EXCEPT ![j] =
           update_job_status(@, "completed", None, None, None, None, None)]
    /\ SetCtx(j, [ctx[j] EXCEPT !.pc = "done"])
    /\ UNCHANGED <<test_results, turn_results, validation_results, sessions,
                   tests, faults>>

MutBatchExcept(j) ==
    /\ ctx[j].pc = "batch_except"
    /\ jobs' = IF j \in DOMAIN jobs
               THEN [jobs EXCEPT ![j] =
                        update_job_status(@, "failed", None, None, None, None,
                                          ctx[j].error)]
               ELSE jobs
    /\ SetCtx(j, IF j \in DOMAIN jobs
                  THEN [ForgetTest(ctx[j]) EXCEPT !.ti = @ + 1,
                                                  !.pc = "next_test"]
                  ELSE [ForgetTest(ctx[j]) EXCEPT !.pc = "done"])
    /\ UNCHANGED <<test_results, turn_results, validation_results, sessions,
                   tests, faults>>

(* Lines 242-247: the handler of the batch's try block; update_job_status
   returns None without writing when the job has no row (repository lines
   79-81). *)
BatchExcept(j) ==
    /\ ctx[j].pc = "batch_except"
    /\ jobs' = IF j \in DOMAIN jobs
               THEN [jobs EXCEPT ![j] =
                        update_job_status(@, "failed", None, None, None, None,
                                          ctx[j].error)]
               ELSE jobs
    /\ SetCtx(j, [ForgetTest(ctx[j]) EXCEPT !.pc = "done"])
    /\ UNCHANGED <<test_results, turn_results, validation_results, sessions,
                   tests, faults>>

(* The state after construction: nothing stored, no session, an idle queue. *)
StoreEmpty ==
    /\ jobs = <<>>
    /\ test_results = <<>>
    /\ turn_results = <<>>
    /\ validation_results = <<>>

EngineIdle ==
    /\ sessions = {}
    /\ tests = [j \in JobIds |-> <<>>]
    /\ ctx = [j \in JobIds |-> NewCtx]
    /\ faults = 0

(* No service is being called on its own. *)
ServicesIdle ==
    /\ agent = None
    /\ scrape = None
    /\ pcall = None
    /\ vcall = None
    /\ ucall = None
    /\ qcall = None

(* TaskQueue.__init__ with MAX_CONCURRENT_JOBS = limit. *)
QueueWith(limit) ==
    /\ running = FALSE
    /\ queue = <<>>
    /\ workers = {}
    /\ max_workers = limit
    /\ active_jobs = {}
    /\ wstate = [w \in WorkerIds |-> [pc |-> "free", job |-> 0]]
    /\ cstate = [c \in Callers |->
                    [pc |-> "idle", waiting |-> {}, seen |-> {},
                     short |-> FALSE]]
    /\ jstate = [q \in QueueJobs |-> "new"]

QueueIdle == QueueWith(MaxPool)

Init ==
    /\ StoreEmpty
    /\ sessions = {}
    /\ tests \in [JobIds -> Batches]
    /\ ctx = [j \in JobIds |-> NewCtx]
    /\ faults = 0
    /\ QueueIdle
    /\ ServicesIdle

(* The execute_batch calls in progress. *)
Submitted(j) == j \in DOMAIN tests

Next ==
    \E j \in PairIds :
        \/ Submitted(j) /\ CreateJob(j) /\ UNCHANGED <<queuevars, servicevars>>
        \/ Submitted(j) /\ SetRunning(j) /\ UNCHANGED <<queuevars, servicevars>>
        \/ Submitted(j) /\ BeginTest(j) /\ UNCHANGED <<queuevars, servicevars>>
        \/ Submitted(j) /\ StartSession(j) /\ UNCHANGED <<queuevars, servicevars>>
        \/ Submitted(j) /\ BeginTurn(j) /\ UNCHANGED <<queuevars, servicevars>>
        \/ Submitted(j) /\ SendAttempt(j) /\ UNCHANGED <<queuevars, servicevars>>
        \/ Submitted(j) /\ SendSleep(j) /\ UNCHANGED <<queuevars, servicevars>>
        \/ \E outcome \in ScrapeOutcomes :
               Submitted(j) /\ PersistTurn(j, outcome)
                            /\ UNCHANGED <<queuevars, servicevars>>
        \/ Submitted(j) /\ ValidateAttempt(j) /\ UNCHANGED <<queuevars, servicevars>>
        \/ Submitted(j) /\ ValidateSleep(j) /\ UNCHANGED <<queuevars, servicevars>>
        \/ Submitted(j) /\ RecordValidation(j) /\ UNCHANGED <<queuevars, servicevars>>
        \/ Submitted(j) /\ EndSession(j) /\ UNCHANGED <<queuevars, servicevars>>
        \/ Submitted(j) /\ CompleteTest(j) /\ UNCHANGED <<queuevars, servicevars>>
        \/ Submitted(j) /\ FailTest(j) /\ UNCHANGED <<queuevars, servicevars>>
        \/ Submitted(j) /\ FinishBatch(j) /\ UNCHANGED <<queuevars, servicevars>>
        \/ Submitted(j) /\ BatchExcept(j) /\ UNCHANGED <<queuevars, servicevars>>

Spec == Init /\ [][Next]_vars

(* Two execute_batch calls run by two workers of the same process: their
   steps interleave at the suspension points.  The two batches hold at most
   MaxSize - 1 tests, turns and validations together. *)
InitPair ==
    /\ StoreEmpty
    /\ sessions = {}
    /\ tests \in {f \in [PairIds -> Batches] :
                     BatchSize(f["A"]) + BatchSize(f["B"]) <= MaxSize - 1}
    /\ ctx = [j \in PairIds |-> NewCtx]
    /\ faults = 0
    /\ QueueIdle
    /\ ServicesIdle

SpecPair == InitPair /\ [][Next]_vars

---------------------------------------------------------------------------
(* The status and results endpoints, requested while an execute_batch call
   runs.  A handler has no suspension point: it runs from the request to its
   answer between two steps of the engine, when the engine is suspended in
   an await, has not begun or is over.  `qcall` holds the answer until it is
   sent. *)

(* execute_batch call j is not in the middle of a synchronous stretch. *)
MutSuspended(j) ==
    \/ ctx[j].pc \in {"create_job", "set_running", "start_session", "send",
                      "send_sleep", "scrape", "validate", "validate_sleep",
                      "done"}
    \/ ctx[j].pc = "next_turn" /\ ctx[j].ui > Len(Test(j).turns)

Suspended(j) ==
    \/ ctx[j].pc \in {"create_job", "start_session", "send", "send_sleep",
                      "scrape", "validate", "validate_sleep", "done"}
    \/ ctx[j].pc = "next_turn" /\ ctx[j].ui > Len(Test(j).turns)

Observable == \A j \in DOMAIN tests : Suspended(j)

(* GET /status/{job_id}, endpoints/execution.py lines 82-114.  The local
   `status` shadows the imported fastapi.status, so the not-found branch
   evaluates None.HTTP_404_NOT_FOUND and raises AttributeError. *)
status_endpoint(jbs, job_id) ==
    LET status == get_batch_status(jbs, job_id)
    IN  IF status = None
        THEN [http |-> 500, body |-> None]
        ELSE [http |-> 200, body |-> status]

(* GET /results/{job_id}, endpoints/results.py lines 12-33. *)
results_endpoint(jbs, tsts, trs, vrs, job_id, include_scraped_content) ==
    LET results == get_batch_results(jbs, tsts, trs, vrs, job_id,
                                     include_scraped_content)
    IN  IF results = None
        THEN [http |-> 404, body |-> None]
        ELSE [http |-> 200, body |-> results]

StatusRequest(job_id) ==
    /\ qcall = None
    /\ Observable
    /\ qcall' = Some([op |-> "status", job_id |-> job_id,
                      include_scraped_content |-> FALSE,
                      answer |-> status_endpoint(jobs, job_id)])
    /\ UNCHANGED <<enginevars, queuevars, agent, scrape, pcall, vcall, ucall>>

ResultsRequest(job_id, include_scraped_content) ==
    /\ qcall = None
    /\ Observable
    /\ qcall' = Some([op |-> "results", job_id |-> job_id,
                      include_scraped_content |-> include_scraped_content,
                      answer |-> results_endpoint(jobs, test_results,
                                     turn_results, validation_results,
                                     job_id, include_scraped_content)])
    /\ UNCHANGED <<enginevars, queuevars, agent, scrape, pcall, vcall, ucall>>

(* The answer leaves the process. *)
Respond ==
    /\ qcall # None
    /\ qcall' = None
    /\ UNCHANGED <<enginevars, queuevars, agent, scrape, pcall, vcall, ucall>>

(* One execute_batch call on a batch of at most MaxSize - 1 tests, turns
   and validations; job id "B" is never submitted. *)
InitApi ==
    /\ StoreEmpty
    /\ sessions = {}
    /\ tests \in [JobIds -> BatchesWithin(MaxSize - 1)]
    /\ ctx = [j \in JobIds |-> NewCtx]
    /\ faults = 0
    /\ QueueIdle
    /\ ServicesIdle

NextApi ==
    \E j \in PairIds :
        \/ /\ qcall = None /\ Submitted(j) /\ CreateJob(j)
           /\ UNCHANGED <<queuevars, servicevars>>
        \/ /\ qcall = None /\ Submitted(j) /\ SetRunning(j)
           /\ UNCHANGED <<queuevars, servicevars>>
        \/ /\ qcall = None /\ Submitted(j) /\ BeginTest(j)
           /\ UNCHANGED <<queuevars, servicevars>>
        \/ /\ qcall = None /\ Submitted(j) /\ StartSession(j)
           /\ UNCHANGED <<queuevars, servicevars>>
        \/ /\ qcall = None /\ Submitted(j) /\ BeginTurn(j)
           /\ UNCHANGED <<queuevars, servicevars>>
        \/ /\ qcall = None /\ Submitted(j) /\ SendAttempt(j)
           /\ UNCHANGED <<queuevars, servicevars>>
        \/ /\ qcall = None /\ Submitted(j) /\ SendSleep(j)
           /\ UNCHANGED <<queuevars, servicevars>>
        \/ \E outcome \in ScrapeOutcomes :
               /\ qcall = None /\ Submitted(j) /\ PersistTurn(j, outcome)
               /\ UNCHANGED <<queuevars, servicevars>>
        \/ /\ qcall = None /\ Submitted(j) /\ ValidateAttempt(j)
           /\ UNCHANGED <<queuevars, servicevars>>
        \/ /\ qcall = None /\ Submitted(j) /\ ValidateSleep(j)
           /\ UNCHANGED <<queuevars, servicevars>>
        \/ /\ qcall = None /\ Submitted(j) /\ RecordValidation(j)
           /\ UNCHANGED <<queuevars, servicevars>>
        \/ /\ qcall = None /\ Submitted(j) /\ EndSession(j)
           /\ UNCHANGED <<queuevars, servicevars>>
        \/ /\ qcall = None /\ Submitted(j) /\ CompleteTest(j)
           /\ UNCHANGED <<queuevars, servicevars>>
        \/ /\ qcall = None /\ Submitted(j) /\ FailTest(j)
           /\ UNCHANGED <<queuevars, servicevars>>
        \/ /\ qcall = None /\ Submitted(j) /\ FinishBatch(j)
           /\ UNCHANGED <<queuevars, servicevars>>
        \/ /\ qcall = None /\ Submitted(j) /\ BatchExcept(j)
           /\ UNCHANGED <<queuevars, servicevars>>
        \/ StatusRequest(j)
        \/ \E include_scraped_content \in BOOLEAN :
               ResultsRequest(j, include_scraped_content)
        \/ j = "A" /\ Respond

SpecApi == InitApi /\ [][NextApi]_vars

---------------------------------------------------------------------------
(* The repository called directly: one jobs row, written by create_job and
   by update_job_status with any combination of its optional arguments. *)

JobStatuses == {"queued", "running", "completed", "failed"}

RepoCreateJob(j, total_tests) ==
    /\ j \notin DOMAIN jobs
    /\ jobs' = (j :> create_job(total_tests)) @@ jobs
    /\ UNCHANGED <<test_results, turn_results, validation_results, sessions,
                   tests, ctx, faults, queuevars, servicevars>>

RepoUpdateJobStatus(j, status, current_test_id, current_turn, completed_tests, failed_tests, error) ==
    /\ jobs' = IF j \in DOMAIN jobs
               THEN [jobs EXCEPT ![j] =
                        update_job_status(jobs[j], status, current_test_id,
                                          current_turn, completed_tests,
                                          failed_tests, error)]
               ELSE jobs
    /\ UNCHANGED <<test_results, turn_results, validation_results, sessions,
                   tests, ctx, faults, queuevars, servicevars>>

InitRepo == StoreEmpty /\ EngineIdle /\ QueueIdle /\ ServicesIdle

NextRepoJob ==
    \E j \in JobIds :
        \/ \E total_tests \in 0..MaxCount : RepoCreateJob(j, total_tests)
        \/ \E status \in JobStatuses,
              current_test_id \in OptOf({1}),
              current_turn \in OptOf({0}),
              completed_tests \in OptOf(0..MaxCount),
              failed_tests \in OptOf(0..MaxCount),
              error \in OptOf({"error"}) :
                RepoUpdateJobStatus(j, status, current_test_id, current_turn,
                                    completed_tests, failed_tests, error)

SpecRepoJob == InitRepo /\ [][NextRepoJob]_vars

(* The repository called directly: test_results rows, written by
   create_test_result and by update_test_result with any combination of its
   optional arguments. *)

TestStatuses == {"running", "completed", "failed"}

RepoCreateTestResult(j, test_id) ==
    /\ test_results = <<>>
    /\ test_results' = Append(test_results, create_test_result(j, test_id))
    /\ UNCHANGED <<jobs, turn_results, validation_results, sessions, tests,
                   ctx, faults, queuevars, servicevars>>

RepoUpdateTestResult(id, status, total_validations, passed_validations, failed_validations, avg_response_time, error) ==
    /\ test_results' =
          IF id \in DOMAIN test_results
          THEN [test_results EXCEPT ![id] =
                   update_test_result(test_results[id], status,
                                      total_validations, passed_validations,
                                      failed_validations, avg_response_time,
                                      error)]
          ELSE test_results
    /\ UNCHANGED <<jobs, turn_results, validation_results, sessions, tests,
                   ctx, faults, queuevars, servicevars>>

NextRepoTest ==
    \/ \E j \in JobIds : RepoCreateTestResult(j, 1)
    \/ \E id \in DOMAIN test_results,
          status \in TestStatuses,
          total_validations \in OptOf(0..MaxCount),
          passed_validations \in OptOf(0..MaxCount),
          failed_validations \in OptOf(0..MaxCount),
          avg_response_time \in OptOf({Ratio(BackoffMs, 1)}),
          error \in OptOf({"error"}) :
            RepoUpdateTestResult(id, status, total_validations,
                                 passed_validations, failed_validations,
                                 avg_response_time, error)

SpecRepoTest == InitRepo /\ [][NextRepoTest]_vars

---------------------------------------------------------------------------
(* The task queue: TaskQueue, its worker tasks, and the coroutines that call
   start() and stop() (application startup and shutdown, the admin
   restart-queue background task).  Everything runs on one event loop, so
   each action is the code between two suspension points. *)

(* The jobs some worker is executing: their task was awaited and has not
   returned or raised yet. *)
InFlight == {wstate[w].job : w \in {x \in WorkerIds : wstate[x].pc = "exec"}}

RECURSIVE SpawnWorkers(_, _)
SpawnWorkers(ws, limit) ==
    IF Cardinality(ws) < limit
    THEN LET w == CHOOSE x \in WorkerIds \ ws :
                     \A y \in WorkerIds \ ws : x <= y
         IN  SpawnWorkers(ws \cup {w}, limit)
    ELSE ws

MutEnsureWorkers(run, ws, limit) ==
    IF run /\ ws = {} THEN SpawnWorkers(ws, limit) ELSE ws

ensure_workers(run, ws, limit) == IF run THEN SpawnWorkers(ws, limit) ELSE ws

EnsureWorkers(run) ==
    LET ws == ensure_workers(run, workers, max_workers)
    IN  /\ workers' = ws
        /\ wstate' = [w \in WorkerIds |->
                         IF w \in ws \ workers
                         THEN [pc |-> "new", job |-> 0] ELSE wstate[w]]

MutEnqueueJob(q) ==
    /\ jstate[q] = "new"
    /\ \A p \in QueueJobs : p < q => jstate[p] # "new"
    /\ queue' = IF running THEN Append(queue, q) ELSE queue
    /\ jstate' = [jstate EXCEPT ![q] = IF running THEN "queued" ELSE "parked"]
    /\ EnsureWorkers(running)
    /\ UNCHANGED <<running, max_workers, active_jobs, cstate>>

(* enqueue_job; the job ids are numbered in the order of the calls.  A job
   waiting in the queue is "queued" when it was enqueued on a running pool
   and "parked" when it was enqueued while running was false. *)
EnqueueJob(q) ==
    /\ jstate[q] = "new"
    /\ \A p \in QueueJobs : p < q => jstate[p] # "new"
    /\ queue' = Append(queue, q)
    /\ jstate' = [jstate EXCEPT ![q] = IF running THEN "queued" ELSE "parked"]
    /\ EnsureWorkers(running)
    /\ UNCHANGED <<running, max_workers, active_jobs, cstate>>

StartBody ==
    IF running
    THEN UNCHANGED <<running, workers, wstate>>
    ELSE running' = TRUE /\ EnsureWorkers(TRUE)

(* start() returning to caller c; `short` keeps whether fewer workers than
   max_workers were alive at that instant. *)
Started(c) ==
    [cstate EXCEPT ![c] = [pc |-> "idle", waiting |-> {}, seen |-> {},
                           short |-> Cardinality(workers') < max_workers]]

(* start(), called by the application's startup handler. *)
Start(c) ==
    /\ c = "lifecycle"
    /\ cstate[c].pc = "idle"
    /\ StartBody
    /\ cstate' = Started(c)
    /\ UNCHANGED <<queue, max_workers, active_jobs, jstate>>

(* stop() clearing the queue: every waiting job is dropped. *)
ClearQueue ==
    /\ queue' = <<>>
    /\ jstate' = [q \in QueueJobs |->
                     IF jstate[q] \in {"queued", "parked"}
                     THEN "discarded" ELSE jstate[q]]

(* stop() returning to caller c, which goes on at `after`; `seen` keeps the
   jobs still being executed at that instant. *)
Returned(c, after) ==
    [cstate EXCEPT ![c] = [pc |-> after, waiting |-> {}, seen |-> InFlight,
                           short |-> FALSE]]

AfterStop(kind) == IF kind = "restart" THEN "restart_sleep" ELSE "idle"

(* A call of stop(), by the application's shutdown handler (kind "stop") or
   as the first step of restart_task_queue (kind "restart"), up to its first
   suspension point or its return. *)
Stop(c, kind) ==
    /\ kind = (IF c = "admin" THEN "restart" ELSE "stop")
    /\ cstate[c].pc = "idle"
    /\ IF ~running
       THEN /\ cstate' = Returned(c, AfterStop(kind))
            /\ UNCHANGED <<running, queue, jstate>>
       ELSE /\ running' = FALSE
            /\ IF workers # {}
               THEN /\ cstate' = [cstate EXCEPT ![c] =
                                     [pc |-> kind \o "_gather",
                                      waiting |-> workers, seen |-> {},
                                      short |-> FALSE]]
                    /\ UNCHANGED <<queue, jstate>>
               ELSE /\ ClearQueue
                    /\ cstate' = Returned(c, AfterStop(kind))
    /\ UNCHANGED <<workers, max_workers, active_jobs, wstate>>

(* gather() has seen every worker it awaited end: stop() clears the queue and
   returns. *)
StopResume(c) ==
    /\ cstate[c].pc \in {"stop_gather", "restart_gather"}
    /\ cstate[c].waiting = {}
    /\ ClearQueue
    /\ cstate' = Returned(c, IF cstate[c].pc = "restart_gather"
                             THEN "restart_sleep" ELSE "idle")
    /\ UNCHANGED <<running, workers, max_workers, active_jobs, wstate>>

(* restart_task_queue after its sleep: start(). *)
RestartWake(c) ==
    /\ cstate[c].pc = "restart_sleep"
    /\ StartBody
    /\ cstate' = Started(c)
    /\ UNCHANGED <<queue, max_workers, active_jobs, jstate>>

(* A worker task ends: it leaves the workers list, and every gather() that
   awaits it sees it done. *)
WorkerExit(w) ==
    /\ workers' = workers \ {w}
    /\ wstate' = [wstate EXCEPT ![w] = [pc |-> "free", job |-> 0]]
    /\ cstate' = [c \in Callers |->
                     [cstate[c] EXCEPT !.waiting = @ \ {w}]]

(* A created worker task runs for the first time: the loop condition. *)
WorkerBegin(w) ==
    /\ wstate[w].pc = "new"
    /\ IF running
       THEN /\ wstate' = [wstate EXCEPT ![w].pc = "get"]
            /\ UNCHANGED <<workers, cstate>>
       ELSE WorkerExit(w)
    /\ UNCHANGED <<running, queue, max_workers, active_jobs, jstate>>

MutWorkerDequeue(w) ==
    /\ wstate[w].pc = "get"
    /\ queue # <<>>
    /\ queue' = SubSeq(queue, 1, Len(queue) - 1)
    /\ active_jobs' = active_jobs \cup {queue[Len(queue)]}
    /\ jstate' = [jstate EXCEPT ![queue[Len(queue)]] = "running"]
    /\ wstate' = [wstate EXCEPT ![w] =
                     [pc |-> "exec", job |-> queue[Len(queue)]]]
    /\ UNCHANGED <<running, workers, max_workers, cstate>>

MutWorkerPeek(w) ==
    /\ wstate[w].pc = "get"
    /\ queue # <<>>
    /\ queue' = queue
    /\ active_jobs' = active_jobs \cup {Head(queue)}
    /\ jstate' = [jstate EXCEPT ![Head(queue)] = "running"]
    /\ wstate' = [wstate EXCEPT ![w] = [pc |-> "exec", job |-> Head(queue)]]
    /\ UNCHANGED <<running, workers, max_workers, cstate>>

(* queue.get() hands the oldest job to a waiting worker, which registers it
   and awaits its task. *)
WorkerDequeue(w) ==
    /\ wstate[w].pc = "get"
    /\ queue # <<>>
    /\ queue' = Tail(queue)
    /\ active_jobs' = active_jobs \cup {Head(queue)}
    /\ jstate' = [jstate EXCEPT ![Head(queue)] = "running"]
    /\ wstate' = [wstate EXCEPT ![w] = [pc |-> "exec", job |-> Head(queue)]]
    /\ UNCHANGED <<running, workers, max_workers, cstate>>

(* queue.get() times out on an empty queue; the worker goes round the loop,
   which ends it once the queue is stopped (while running it waits again,
   which changes nothing). *)
WorkerTimeout(w) ==
    /\ wstate[w].pc = "get"
    /\ queue = <<>>
    /\ ~running
    /\ WorkerExit(w)
    /\ UNCHANGED <<running, queue, max_workers, active_jobs, jstate>>

MutTaskEndKeepsId(w, outcome) ==
    /\ wstate[w].pc = "exec"
    /\ active_jobs' = IF outcome = "raised" THEN active_jobs
                      ELSE active_jobs \ {wstate[w].job}
    /\ jstate' = [jstate EXCEPT ![wstate[w].job] = outcome]
    /\ IF running
       THEN /\ wstate' = [wstate EXCEPT ![w] = [pc |-> "get", job |-> 0]]
            /\ UNCHANGED <<workers, cstate>>
       ELSE WorkerExit(w)
    /\ UNCHANGED <<running, queue, max_workers>>

MutTaskEndKillsWorker(w, outcome) ==
    /\ wstate[w].pc = "exec"
    /\ active_jobs' = active_jobs \ {wstate[w].job}
    /\ jstate' = [jstate EXCEPT ![wstate[w].job] = outcome]
    /\ IF running /\ outcome # "raised"
       THEN /\ wstate' = [wstate EXCEPT ![w] = [pc |-> "get", job |-> 0]]
            /\ UNCHANGED <<workers, cstate>>
       ELSE WorkerExit(w)
    /\ UNCHANGED <<running, queue, max_workers>>

(* The awaited task returns or raises: the worker deregisters the job and
   goes round the loop. *)
TaskEnd(w, outcome) ==
    /\ wstate[w].pc = "exec"
    /\ active_jobs' = active_jobs \ {wstate[w].job}
    /\ jstate' = [jstate EXCEPT ![wstate[w].job] = outcome]
    /\ IF running
       THEN /\ wstate' = [wstate EXCEPT ![w] = [pc |-> "get", job |-> 0]]
            /\ UNCHANGED <<workers, cstate>>
       ELSE WorkerExit(w)
    /\ UNCHANGED <<running, queue, max_workers>>

(* The admin settings endpoint writes MAX_CONCURRENT_JOBS. *)
SetMaxWorkers(n) ==
    /\ n # max_workers
    /\ max_workers' = n
    /\ UNCHANGED <<running, queue, workers, active_jobs, wstate, cstate,
                   jstate>>

InitQueue == StoreEmpty /\ EngineIdle /\ QueueIdle /\ ServicesIdle

NextQueue ==
    \/ \E q \in QueueJobs : EnqueueJob(q) /\ UNCHANGED <<enginevars, servicevars>>
    \/ \E c \in Callers : Start(c) /\ UNCHANGED <<enginevars, servicevars>>
    \/ \E c \in Callers, kind \in {"stop", "restart"} :
          Stop(c, kind) /\ UNCHANGED <<enginevars, servicevars>>
    \/ \E c \in Callers : StopResume(c) /\ UNCHANGED <<enginevars, servicevars>>
    \/ \E c \in Callers : RestartWake(c) /\ UNCHANGED <<enginevars, servicevars>>
    \/ \E w \in WorkerIds : WorkerBegin(w) /\ UNCHANGED <<enginevars, servicevars>>
    \/ \E w \in WorkerIds : WorkerDequeue(w) /\ UNCHANGED <<enginevars, servicevars>>
    \/ \E w \in WorkerIds : WorkerTimeout(w) /\ UNCHANGED <<enginevars, servicevars>>
    \/ \E w \in WorkerIds, outcome \in {"returned", "raised"} :
          TaskEnd(w, outcome) /\ UNCHANGED <<enginevars, servicevars>>
    \/ \E n \in 0..MaxPool : SetMaxWorkers(n) /\ UNCHANGED <<enginevars, servicevars>>

SpecQueue == InitQueue /\ [][NextQueue]_vars

(* The queue configured with MAX_CONCURRENT_JOBS = 1 and never reconfigured. *)
InitQueueOne == StoreEmpty /\ EngineIdle /\ QueueWith(1) /\ ServicesIdle

NextQueueOne ==
    \/ \E q \in QueueJobs : EnqueueJob(q) /\ UNCHANGED <<enginevars, servicevars>>
    \/ \E c \in Callers : Start(c) /\ UNCHANGED <<enginevars, servicevars>>
    \/ \E c \in Callers, kind \in {"stop", "restart"} :
          Stop(c, kind) /\ UNCHANGED <<enginevars, servicevars>>
    \/ \E c \in Callers : StopResume(c) /\ UNCHANGED <<enginevars, servicevars>>
    \/ \E c \in Callers : RestartWake(c) /\ UNCHANGED <<enginevars, servicevars>>
    \/ \E w \in WorkerIds : WorkerBegin(w) /\ UNCHANGED <<enginevars, servicevars>>
    \/ \E w \in WorkerIds : WorkerDequeue(w) /\ UNCHANGED <<enginevars, servicevars>>
    \/ \E w \in WorkerIds : WorkerTimeout(w) /\ UNCHANGED <<enginevars, servicevars>>
    \/ \E w \in WorkerIds, outcome \in {"returned", "raised"} :
          TaskEnd(w, outcome) /\ UNCHANGED <<enginevars, servicevars>>

SpecQueueOne == InitQueueOne /\ [][NextQueueOne]_vars

(* The queue while nobody calls stop(): the startup handler's start(),
   enqueue_job, the settings endpoint and the workers.  The event loop runs
   every task that is ready and every awaited task ends, hence the weak
   fairness of the worker steps. *)
NextQueueRun ==
    \/ \E q \in QueueJobs : EnqueueJob(q) /\ UNCHANGED <<enginevars, servicevars>>
    \/ \E c \in Callers : Start(c) /\ UNCHANGED <<enginevars, servicevars>>
    \/ \E w \in WorkerIds : WorkerBegin(w) /\ UNCHANGED <<enginevars, servicevars>>
    \/ \E w \in WorkerIds : WorkerDequeue(w) /\ UNCHANGED <<enginevars, servicevars>>
    \/ \E w \in WorkerIds, outcome \in {"returned", "raised"} :
          TaskEnd(w, outcome) /\ UNCHANGED <<enginevars, servicevars>>
    \/ \E n \in 0..MaxPool : SetMaxWorkers(n) /\ UNCHANGED <<enginevars, servicevars>>

FairQueueRun ==
    \A w \in WorkerIds :
        /\ WF_vars(WorkerBegin(w) /\ UNCHANGED <<enginevars, servicevars>>)
        /\ WF_vars(WorkerDequeue(w) /\ UNCHANGED <<enginevars, servicevars>>)
        /\ WF_vars(\E outcome \in {"returned", "raised"} :
                      TaskEnd(w, outcome) /\ UNCHANGED <<enginevars, servicevars>>)

SpecQueueRun == InitQueue /\ [][NextQueueRun]_vars /\ FairQueueRun

---------------------------------------------------------------------------
(* The service end to end: the submit endpoint enqueues execute_batch for a
   job, a worker of the queue awaits it, and the application's startup and
   shutdown handlers call start() and stop() meanwhile.  The queue is
   configured with MAX_CONCURRENT_JOBS = 1; the first job of the queue is
   job "A" of the engine. *)

ServiceJobs == {1}

ServiceCallers == {"lifecycle"}

JobOf(q) == IF q = 1 THEN "A" ELSE "B"

QueueIdOf(j) == IF j = "A" THEN 1 ELSE 2

MutPicked(j) ==
    /\ Submitted(j)
    /\ running
    /\ \E w \in WorkerIds :
          wstate[w].pc = "exec" /\ wstate[w].job = QueueIdOf(j)

(* A worker is awaiting execute_batch for job j. *)
Picked(j) ==
    /\ Submitted(j)
    /\ \E w \in WorkerIds :
          wstate[w].pc = "exec" /\ wstate[w].job = QueueIdOf(j)

(* execute_batch catches every exception (lines 242-247), so the awaited
   task returns, once its last statement has run. *)
ServiceTaskEnd(w) ==
    /\ wstate[w].pc = "exec"
    /\ ctx[JobOf(wstate[w].job)].pc = "done"
    /\ TaskEnd(w, "returned")

(* The submitted batches: at most MaxSize - 1 tests, turns and validations
   in all, every test with complete credentials. *)
ServiceBatches ==
    {b \in BatchesWithin(MaxSize - 1) :
        \A k \in DOMAIN b : b[k].credentials = FullCredentials}

InitService ==
    /\ StoreEmpty
    /\ sessions = {}
    /\ tests \in [JobIds -> ServiceBatches]
    /\ ctx = [j \in JobIds |-> NewCtx]
    /\ faults = 0
    /\ QueueWith(1)
    /\ ServicesIdle

NextService ==
    \/ \E q \in ServiceJobs : EnqueueJob(q) /\ UNCHANGED <<enginevars, servicevars>>
    \/ \E c \in ServiceCallers : Start(c) /\ UNCHANGED <<enginevars, servicevars>>
    \/ \E c \in ServiceCallers :
          Stop(c, "stop") /\ UNCHANGED <<enginevars, servicevars>>
    \/ \E c \in ServiceCallers : StopResume(c) /\ UNCHANGED <<enginevars, servicevars>>
    \/ \E w \in WorkerIds : WorkerBegin(w) /\ UNCHANGED <<enginevars, servicevars>>
    \/ \E w \in WorkerIds : WorkerDequeue(w) /\ UNCHANGED <<enginevars, servicevars>>
    \/ \E w \in WorkerIds : WorkerTimeout(w) /\ UNCHANGED <<enginevars, servicevars>>
    \/ \E w \in WorkerIds : ServiceTaskEnd(w) /\ UNCHANGED <<enginevars, servicevars>>
    \/ \E j \in PairIds :
        \/ Picked(j) /\ CreateJob(j) /\ UNCHANGED <<queuevars, servicevars>>
        \/ Picked(j) /\ SetRunning(j) /\ UNCHANGED <<queuevars, servicevars>>
        \/ Picked(j) /\ BeginTest(j) /\ UNCHANGED <<queuevars, servicevars>>
        \/ Picked(j) /\ StartSession(j) /\ UNCHANGED <<queuevars, servicevars>>
        \/ Picked(j) /\ BeginTurn(j) /\ UNCHANGED <<queuevars, servicevars>>
        \/ Picked(j) /\ SendAttempt(j) /\ UNCHANGED <<queuevars, servicevars>>
        \/ Picked(j) /\ SendSleep(j) /\ UNCHANGED <<queuevars, servicevars>>
        \/ \E outcome \in ScrapeOutcomes :
               Picked(j) /\ PersistTurn(j, outcome)
                         /\ UNCHANGED <<queuevars, servicevars>>
        \/ Picked(j) /\ ValidateAttempt(j) /\ UNCHANGED <<queuevars, servicevars>>
        \/ Picked(j) /\ ValidateSleep(j) /\ UNCHANGED <<queuevars, servicevars>>
        \/ Picked(j) /\ RecordValidation(j) /\ UNCHANGED <<queuevars, servicevars>>
        \/ Picked(j) /\ EndSession(j) /\ UNCHANGED <<queuevars, servicevars>>
        \/ Picked(j) /\ CompleteTest(j) /\ UNCHANGED <<queuevars, servicevars>>
        \/ Picked(j) /\ FailTest(j) /\ UNCHANGED <<queuevars, servicevars>>
        \/ Picked(j) /\ FinishBatch(j) /\ UNCHANGED <<queuevars, servicevars>>
        \/ Picked(j) /\ BatchExcept(j) /\ UNCHANGED <<queuevars, servicevars>>

SpecService == InitService /\ [][NextService]_vars

(* A step of execute_batch for job j while a worker awaits it. *)
EngineStep(j) ==
    \/ Picked(j) /\ CreateJob(j) /\ UNCHANGED <<queuevars, servicevars>>
    \/ Picked(j) /\ SetRunning(j) /\ UNCHANGED <<queuevars, servicevars>>
    \/ Picked(j) /\ BeginTest(j) /\ UNCHANGED <<queuevars, servicevars>>
    \/ Picked(j) /\ StartSession(j) /\ UNCHANGED <<queuevars, servicevars>>
    \/ Picked(j) /\ BeginTurn(j) /\ UNCHANGED <<queuevars, servicevars>>
    \/ Picked(j) /\ SendAttempt(j) /\ UNCHANGED <<queuevars, servicevars>>
    \/ Picked(j) /\ SendSleep(j) /\ UNCHANGED <<queuevars, servicevars>>
    \/ \E outcome \in ScrapeOutcomes :
           Picked(j) /\ PersistTurn(j, outcome)
                     /\ UNCHANGED <<queuevars, servicevars>>
    \/ Picked(j) /\ ValidateAttempt(j) /\ UNCHANGED <<queuevars, servicevars>>
    \/ Picked(j) /\ ValidateSleep(j) /\ UNCHANGED <<queuevars, servicevars>>
    \/ Picked(j) /\ RecordValidation(j) /\ UNCHANGED <<queuevars, servicevars>>
    \/ Picked(j) /\ EndSession(j) /\ UNCHANGED <<queuevars, servicevars>>
    \/ Picked(j) /\ CompleteTest(j) /\ UNCHANGED <<queuevars, servicevars>>
    \/ Picked(j) /\ FailTest(j) /\ UNCHANGED <<queuevars, servicevars>>
    \/ Picked(j) /\ FinishBatch(j) /\ UNCHANGED <<queuevars, servicevars>>
    \/ Picked(j) /\ BatchExcept(j) /\ UNCHANGED <<queuevars, servicevars>>

(* Every remote call returns or fails, every sleep ends, and the event loop
   runs the coroutine when it is ready: the next step of a picked job is
   eventually taken. *)
FairService == \A j \in JobIds : WF_vars(EngineStep(j))

SpecServiceFair == InitService /\ [][NextService]_vars /\ FairService

---------------------------------------------------------------------------
(* ValidationService._validate_contains called directly.  A string is the
   sequence of its characters; the alphabet has one letter in both cases and
   one in lower case only. *)

Chars == {"a", "A", "b"}

StrsWithin(n) == UNION {[1..k -> Chars] : k \in 0..n}

(* str.lower *)
lower(str) == [i \in DOMAIN str |-> IF str[i] = "A" THEN "a" ELSE str[i]]

StartsWith(str, prefix) ==
    /\ Len(prefix) <= Len(str)
    /\ \A k \in 1..Len(prefix) : str[k] = prefix[k]

(* Python's `text in response` for two strings. *)
RECURSIVE In(_, _)
In(text, response) ==
    IF StartsWith(response, text) THEN TRUE
    ELSE IF Len(response) = 0 THEN FALSE
    ELSE In(text, Tail(response))

(* dict.get(key, default) *)
Get(parameters, key, default) ==
    IF key \in DOMAIN parameters THEN parameters[key] ELSE default

EmptyDict == [key \in {} |-> TRUE]

MutValidateContains(response, parameters) ==
    LET text == Get(parameters, "text", <<>>)
        case_sensitive == Get(parameters, "case_sensitive", TRUE)
        is_contained == In(text, IF case_sensitive THEN response
                                 ELSE lower(response))
    IN  [type |-> "contains", passed |-> is_contained,
         score |-> IF is_contained THEN Ratio(1, 1) ELSE Ratio(0, 1),
         details |-> IF is_contained THEN "found" ELSE "not found"]

validate_contains(response, parameters) ==
    LET text == Get(parameters, "text", <<>>)
        case_sensitive == Get(parameters, "case_sensitive", TRUE)
        is_contained == IF case_sensitive THEN In(text, response)
                        ELSE In(lower(text), lower(response))
    IN  [type |-> "contains", passed |-> is_contained,
         score |-> IF is_contained THEN Ratio(1, 1) ELSE Ratio(0, 1),
         details |-> IF is_contained THEN "found" ELSE "not found"]

(* The parameter mappings: text and case_sensitive each given or not. *)
ContainsParameters ==
    {EmptyDict}
        \cup {[text |-> t] : t \in StrsWithin(MaxText)}
        \cup {[case_sensitive |-> c] : c \in BOOLEAN}
        \cup {[text |-> t, case_sensitive |-> c] :
                 t \in StrsWithin(MaxText), c \in BOOLEAN}

InitContains ==
    /\ StoreEmpty /\ EngineIdle /\ QueueIdle
    /\ agent = None /\ scrape = None /\ pcall = None
    /\ ucall = None /\ qcall = None
    /\ vcall \in [response : StrsWithin(MaxText + 1),
                  parameters : ContainsParameters,
                  result : {None}]

ValidateContains ==
    /\ vcall.result = None
    /\ vcall' = [vcall EXCEPT !.result =
                    Some(validate_contains(vcall.response, vcall.parameters))]
    /\ UNCHANGED <<enginevars, queuevars, agent, scrape, pcall, ucall, qcall>>

NextContains == ValidateContains

SpecContains == InitContains /\ [][NextContains]_vars

---------------------------------------------------------------------------
(* ExecutionService._update_validation_params called, turn after turn, with
   the parameter mapping of one validation definition.  The operator gives
   the caller's mapping as the call leaves it and the mapping returned. *)

ValidationTypes ==
    {"contains", "not_contains", "regex", "answer_relevancy",
     "contextual_relevancy", "faithfulness", "custom"}

MutUpdateValidationParams(validation_type, parameters, scraped_content) ==
    IF scraped_content = None \/ scraped_content = Some(<<>>)
    THEN [parameters |-> parameters, returned |-> parameters]
    ELSE LET context ==
                 IF "context" \in DOMAIN parameters
                 THEN parameters["context"] \o <<"\n", "\n">>
                          \o scraped_content[1]
                 ELSE scraped_content[1]
             params ==
                 IF validation_type \in {"contextual_relevancy", "faithfulness"}
                 THEN [key \in DOMAIN parameters \cup {"context"} |->
                          IF key = "context" THEN context ELSE parameters[key]]
                 ELSE parameters
         IN  [parameters |-> params, returned |-> params]

update_validation_params(validation_type, parameters, scraped_content) ==
    IF scraped_content = None \/ scraped_content = Some(<<>>)
    THEN [parameters |-> parameters, returned |-> parameters]
    ELSE LET context ==
                 IF "context" \in DOMAIN parameters
                 THEN parameters["context"] \o <<"\n", "\n">>
                          \o scraped_content[1]
                 ELSE scraped_content[1]
             params ==
                 IF validation_type \in {"contextual_relevancy", "faithfulness"}
                 THEN [key \in DOMAIN parameters \cup {"context"} |->
                          IF key = "context" THEN context ELSE parameters[key]]
                 ELSE parameters
         IN  [parameters |-> parameters, returned |-> params]

(* The parameter mappings of a definition: a context and a threshold, each
   given or not. *)
ValidationParameters ==
    {EmptyDict}
        \cup {[context |-> c] : c \in StrsWithin(MaxText)}
        \cup {[threshold |-> <<"b">>]}
        \cup {[context |-> c, threshold |-> <<"b">>] :
                 c \in StrsWithin(MaxText)}

InitParams ==
    /\ StoreEmpty /\ EngineIdle /\ QueueIdle
    /\ agent = None /\ scrape = None /\ vcall = None
    /\ ucall = None /\ qcall = None
    /\ \E t \in ValidationTypes, p \in ValidationParameters :
          pcall = [validation_type |-> t, original |-> p, parameters |-> p,
                   scraped_content |-> None, returned |-> None]

(* One turn's call, lines 134-138, with that turn's scraped content. *)
UpdateValidationParams(scraped_content) ==
    LET r == update_validation_params(pcall.validation_type,
                                      pcall.parameters, scraped_content)
    IN  /\ pcall' = [pcall EXCEPT !.parameters = r.parameters,
                                  !.scraped_content = scraped_content,
                                  !.returned = Some(r.returned)]
        /\ UNCHANGED <<enginevars, queuevars, agent, scrape, vcall, ucall,
                       qcall>>

NextParams ==
    \E scraped_content \in OptOf(StrsWithin(MaxText)) :
        UpdateValidationParams(scraped_content)

SpecParams == InitParams /\ [][NextParams]_vars

---------------------------------------------------------------------------
(* ScraperService.scrape_urls called directly: one step per URL fetched, one
   for the return.  A fetch gives a page text, an empty text, the text
   "Error: HTTP <status>" for a status other than 200, or raises.  The output
   string is the sequence of its pieces. *)

Urls == {"u1", "u2"}

UrlLists == UNION {[1..n -> Urls] : n \in 0..MaxUrls}

FetchOutcomes == {"text", "empty", "status", "raises"}

Newline == [kind |-> "newline"]

(* "\n".join(results) *)
RECURSIVE Join(_)
Join(results) ==
    IF results = <<>> THEN <<>>
    ELSE IF Len(results) = 1 THEN results
    ELSE <<Head(results), Newline>> \o Join(Tail(results))

MutScrapeStep(results, url, outcome) ==
    IF outcome = "raises"
    THEN <<[kind |-> "error", url |-> url]>>
    ELSE IF outcome = "empty" THEN results
    ELSE Append(results, [kind |-> "content", url |-> url, text |-> outcome])

(* Lines 39-44: the results list after one URL. *)
scrape_step(results, url, outcome) ==
    IF outcome = "raises"
    THEN Append(results, [kind |-> "error", url |-> url])
    ELSE IF outcome = "empty" THEN results
    ELSE Append(results, [kind |-> "content", url |-> url, text |-> outcome])

InitScrape ==
    /\ StoreEmpty /\ EngineIdle /\ QueueIdle
    /\ agent = None /\ pcall = None /\ vcall = None
    /\ ucall = None /\ qcall = None
    /\ \E urls \in UrlLists :
          scrape = [urls |-> urls, pos |-> 1, results |-> <<>>,
                    outcomes |-> <<>>, output |-> None]

ScrapeUrl(outcome) ==
    /\ scrape.output = None
    /\ scrape.pos <= Len(scrape.urls)
    /\ scrape' = [scrape EXCEPT
                     !.results = scrape_step(@, scrape.urls[scrape.pos],
                                             outcome),
                     !.outcomes = Append(@, outcome),
                     !.pos = @ + 1]
    /\ UNCHANGED <<enginevars, queuevars, agent, pcall, vcall, ucall, qcall>>

(* Line 46. *)
ScrapeReturn ==
    /\ scrape.output = None
    /\ scrape.pos > Len(scrape.urls)
    /\ scrape' = [scrape EXCEPT !.output =
                     Some(IF scrape.results # <<>> THEN Join(scrape.results)
                          ELSE <<>>)]
    /\ UNCHANGED <<enginevars, queuevars, agent, pcall, vcall, ucall, qcall>>

NextScrape ==
    \/ \E outcome \in FetchOutcomes : ScrapeUrl(outcome)
    \/ ScrapeReturn

SpecScrape == InitScrape /\ [][NextScrape]_vars

---------------------------------------------------------------------------
(* ScraperService.extract_urls called on its own.  A text is the sequence of
   its characters, made of at most MaxPieces pieces: a scheme, a letter, a
   dot, a slash, a question mark, a percent escape or a blank. *)

UrlPieces ==
    {<<"h", "t", "t", "p", ":", "/", "/">>,
     <<"h", "t", "t", "p", "s", ":", "/", "/">>,
     <<"a">>, <<".">>, <<"/">>, <<"?">>, <<"%", "4", "a">>, <<" ">>}

RECURSIVE TextsWithin(_)
TextsWithin(n) ==
    IF n = 0 THEN {<<>>}
    ELSE {<<>>} \cup {p \o t : p \in UrlPieces, t \in TextsWithin(n - 1)}

(* The regular expression of line 21:
   https?://(?:[-\w.]|(?:%[\da-fA-F]{2}))+ *)
WordChar(c) == c \in {"h", "t", "p", "s", "a", "4", "_"}
HostChar(c) == WordChar(c) \/ c \in {"-", "."}
HexDigit(c) == c \in {"a", "4"}

At(text, i, str) ==
    /\ i + Len(str) - 1 <= Len(text)
    /\ \A k \in 1..Len(str) : text[i + k - 1] = str[k]

(* https?:// matched at i: the index after it, or 0. *)
SchemeEnd(text, i) ==
    IF At(text, i, <<"h", "t", "t", "p", "s", ":", "/", "/">>) THEN i + 8
    ELSE IF At(text, i, <<"h", "t", "t", "p", ":", "/", "/">>) THEN i + 7
    ELSE 0

(* The greedy repetition from i: the index after the last element matched. *)
RECURSIVE BodyEnd(_, _)
BodyEnd(text, i) ==
    IF i <= Len(text) /\ HostChar(text[i]) THEN BodyEnd(text, i + 1)
    ELSE IF /\ i + 2 <= Len(text)
            /\ text[i] = "%"
            /\ HexDigit(text[i + 1])
            /\ HexDigit(text[i + 2])
    THEN BodyEnd(text, i + 3)
    ELSE i

(* The pattern matched at i: the index after the match, or 0. *)
MatchEnd(text, i) ==
    LET b == SchemeEnd(text, i)
    IN  IF b = 0 THEN 0
        ELSE IF BodyEnd(text, b) = b THEN 0 ELSE BodyEnd(text, b)

(* re.findall: the matches from left to right, not overlapping, as
   <<first index, index after>> pairs. *)
RECURSIVE findall(_, _)
findall(text, i) ==
    IF i > Len(text) THEN <<>>
    ELSE IF MatchEnd(text, i) = 0 THEN findall(text, i + 1)
    ELSE <<<<i, MatchEnd(text, i)>>>> \o findall(text, MatchEnd(text, i))

(* extract_urls, lines 10-23. *)
extract_urls(text) ==
    LET spans == findall(text, 1)
    IN  [k \in DOMAIN spans |-> SubSeq(text, spans[k][1], spans[k][2] - 1)]

InitUrls ==
    /\ StoreEmpty /\ EngineIdle /\ QueueIdle
    /\ agent = None /\ scrape = None /\ pcall = None /\ vcall = None
    /\ qcall = None
    /\ ucall \in [text : TextsWithin(MaxPieces), urls : {None}]

ExtractUrls ==
    /\ ucall.urls = None
    /\ ucall' = [ucall EXCEPT !.urls = Some(extract_urls(ucall.text))]
    /\ UNCHANGED <<enginevars, queuevars, agent, scrape, pcall, vcall, qcall>>

NextUrls == ExtractUrls

SpecUrls == InitUrls /\ [][NextUrls]_vars

---------------------------------------------------------------------------
(* AgentService called on its own: any caller, any credentials, any session
   id, any answer of the remote side.  `agent` keeps the ids that a
   successful start_session returned and that no end_session call has named
   since, and the last call with the map it started from. *)

SessionIds == 1 .. MaxSessions

InitAgent ==
    /\ StoreEmpty /\ EngineIdle /\ QueueIdle
    /\ scrape = None /\ pcall = None /\ vcall = None
    /\ ucall = None /\ qcall = None
    /\ agent = [valid |-> {}, last |-> None]

AgentStartSession(credentials, token, open, session_id) ==
    LET r == start_session(sessions, credentials, token, open, session_id)
    IN  /\ sessions' = r.sessions
        /\ agent' = [valid |-> IF r.raised THEN agent.valid
                               ELSE agent.valid \cup {r.session_id[1]},
                     last |-> Some([op |-> "start_session",
                                    credentials_ok |-> CredentialsOk(credentials),
                                    session_id |-> r.session_id,
                                    outcome |-> <<token, open>>,
                                    raised |-> r.raised,
                                    requests |-> r.requests,
                                    before |-> sessions,
                                    valid |-> agent.valid])]
        /\ UNCHANGED <<jobs, test_results, turn_results, validation_results,
                       tests, ctx, faults, queuevars, scrape, pcall, vcall,
                       ucall, qcall>>

AgentSendMessage(session_id, outcome) ==
    LET r == send_message(sessions, session_id, outcome)
    IN  /\ sessions' = r.sessions
        /\ agent' = [agent EXCEPT
                        !.last = Some([op |-> "send_message",
                                       credentials_ok |-> TRUE,
                                       session_id |-> Some(session_id),
                                       outcome |-> <<outcome>>,
                                       raised |-> r.raised,
                                       requests |-> r.requests,
                                       before |-> sessions,
                                       valid |-> agent.valid])]
        /\ UNCHANGED <<jobs, test_results, turn_results, validation_results,
                       tests, ctx, faults, queuevars, scrape, pcall, vcall,
                       ucall, qcall>>

AgentEndSession(session_id, outcome) ==
    LET r == end_session(sessions, session_id, outcome)
    IN  /\ sessions' = r.sessions
        /\ agent' = [valid |-> agent.valid \ {session_id},
                     last |-> Some([op |-> "end_session",
                                    credentials_ok |-> TRUE,
                                    session_id |-> Some(session_id),
                                    outcome |-> <<outcome>>,
                                    raised |-> r.raised,
                                    requests |-> r.requests,
                                    before |-> sessions,
                                    valid |-> agent.valid])]
        /\ UNCHANGED <<jobs, test_results, turn_results, validation_results,
                       tests, ctx, faults, queuevars, scrape, pcall, vcall,
                       ucall, qcall>>

NextAgent ==
    \/ \E credentials \in Credentials, token \in RemoteOutcomes,
          open \in OpenOutcomes, session_id \in SessionIds :
          AgentStartSession(credentials, token, open, session_id)
    \/ \E session_id \in SessionIds, outcome \in RemoteOutcomes :
          AgentSendMessage(session_id, outcome)
    \/ \E session_id \in SessionIds, outcome \in RemoteOutcomes :
          AgentEndSession(session_id, outcome)

SpecAgent == InitAgent /\ [][NextAgent]_vars

---------------------------------------------------------------------------
(* Properties of the engine, checked under Spec. *)

Terminal == {"completed", "failed"}

HasRow(j, i) ==
    \E r \in DOMAIN test_results :
        test_results[r].job_id = j /\ test_results[r].test_id = i

RowOf(j, i) ==
    CHOOSE r \in DOMAIN test_results :
        test_results[r].job_id = j /\ test_results[r].test_id = i

TurnsOfRow(r) ==
    {t \in DOMAIN turn_results : turn_results[t].test_result_id = r}

ResultsOfTurn(t) ==
    {k \in DOMAIN validation_results :
        validation_results[k].turn_result_id = t}

ResultsOfRow(r) == UNION {ResultsOfTurn(t) : t \in TurnsOfRow(r)}

RaisedTests(j) == {p[1] : p \in ctx[j].raised}

(* The tests of job j that are over: the engine has moved past them. *)
Over(j, i) == i < ctx[j].ti

(* C1: every test whose turn sequence raised ends failed and is counted once
   in failed_tests; the others are still executed; without an error outside
   the tests' try blocks the job ends completed with completed_tests and
   failed_tests splitting the batch accordingly. *)
PartialFailureIsolation ==
    \A j \in JobIds :
        /\ \A i \in RaisedTests(j) :
              Over(j, i) =>
                  HasRow(j, i) /\ test_results[RowOf(j, i)].status = "failed"
        /\ j \in DOMAIN jobs =>
              jobs[j].failed_tests =
                  Cardinality({i \in RaisedTests(j) : Over(j, i)})
        /\ (ctx[j].pc = "done" /\ ~ctx[j].batch_error) =>
              /\ jobs[j].status = "completed"
              /\ jobs[j].completed_tests =
                     Len(tests[j]) - Cardinality(RaisedTests(j))
              /\ \A i \in 1..Len(tests[j]) :
                     /\ HasRow(j, i)
                     /\ test_results[RowOf(j, i)].status =
                            IF i \in RaisedTests(j) THEN "failed"
                            ELSE "completed"

(* Three tests, the second one's send out of retries: 2 completed, 1 failed. *)
PartialFailureWitness ==
    \E j \in JobIds :
        /\ ctx[j].pc = "done"
        /\ Len(tests[j]) = 3
        /\ ctx[j].raised = {<<2, 1>>}
        /\ jobs[j].status = "completed"
        /\ jobs[j].completed_tests = 2
        /\ jobs[j].failed_tests = 1

(* C2: a validation that raised on all max_retries attempts is recorded as a
   failing result (is_passed false, score 0.0, details citing the retry
   count); the test goes on through its remaining validations and turns and
   ends completed unless its session start or a send raised. *)
ValidationDegrade ==
    \A j \in JobIds :
        \A i \in ctx[j].degraded :
            /\ \/ /\ i = ctx[j].ti
                  /\ ctx[j].pc = "record_validation"
                  /\ ctx[j].validation_result # None
                  /\ ~ctx[j].validation_result[1].passed
                  /\ ctx[j].validation_result[1].score = Some(0)
                  /\ ctx[j].validation_result[1].details.retries = 3
               \/ /\ HasRow(j, i)
                  /\ \E k \in ResultsOfRow(RowOf(j, i)) :
                        /\ ~validation_results[k].is_passed
                        /\ validation_results[k].score = Some(0)
                        /\ validation_results[k].details.kind =
                               "retries_exhausted"
                        /\ validation_results[k].details.retries = 3
            /\ (Over(j, i) /\ i \notin RaisedTests(j)) =>
                  /\ test_results[RowOf(j, i)].status = "completed"
                  /\ Cardinality(TurnsOfRow(RowOf(j, i))) =
                         Len(tests[j][i].turns)
                  /\ \A t \in TurnsOfRow(RowOf(j, i)) :
                         Cardinality(ResultsOfTurn(t)) =
                             tests[j][i].turns[turn_results[t].order].validations

ValidationDegradeWitness ==
    \E j \in JobIds :
        \E i \in ctx[j].degraded :
            /\ Over(j, i)
            /\ test_results[RowOf(j, i)].status = "completed"
            /\ \E k \in ResultsOfRow(RowOf(j, i)) :
                   validation_results[k].details.kind = "retries_exhausted"

(* C3: send_message is called at most max_retries times for a turn; a sleep
   separates two attempts and none follows the last; a success ends the
   loop; when every attempt failed the error reaches the test's handler, the
   turn is not persisted, no later turn is played and the test ends failed. *)
SendRetryPolicy ==
    \A j \in JobIds :
        LET c == ctx[j] IN
        /\ c.send_calls <= 3
        /\ c.pc = "send" => c.send_calls < 3 /\ c.sleeps = c.send_calls
        /\ c.pc = "send_sleep" =>
              c.send_calls \in 1..2 /\ c.sleeps = c.send_calls - 1
        /\ c.pc \in {"scrape", "validate", "validate_sleep",
                     "record_validation"} =>
              c.send_calls \in 1..3 /\ c.sleeps = c.send_calls - 1
        /\ (c.pc = "test_except" /\ c.error = Some("send_message")) =>
              /\ c.send_calls = 3
              /\ c.sleeps = 2
              /\ <<c.ti, c.ui>> \in c.raised
        /\ \A p \in c.raised :
              p[2] >= 1 =>
                  /\ HasRow(j, p[1])
                  /\ Cardinality(TurnsOfRow(RowOf(j, p[1]))) = p[2] - 1
                  /\ \A t \in TurnsOfRow(RowOf(j, p[1])) :
                         turn_results[t].order < p[2]
                  /\ Over(j, p[1]) =>
                         test_results[RowOf(j, p[1])].status = "failed"

(* The first of two turns ran out of retries: the test is over and failed,
   the second turn was never played. *)
SendRetryWitness ==
    \E j \in JobIds :
        \E p \in ctx[j].raised :
            /\ p[2] = 1
            /\ Len(tests[j][p[1]].turns) >= 2
            /\ Over(j, p[1])
            /\ test_results[RowOf(j, p[1])].status = "failed"
            /\ TurnsOfRow(RowOf(j, p[1])) = {}

(* C4: once a TestResult is completed or failed, the session opened for it
   is no longer in the client's session map. *)
SessionClosedAtTestEnd ==
    \A r \in DOMAIN test_results :
        test_results[r].status \in Terminal => r \notin sessions

(* C5: a job row is created queued; its status then moves queued -> running
   -> completed or failed only, and a completed or failed row is never
   written again. *)
JobStatusStep(j) ==
    /\ (j \notin DOMAIN jobs /\ j \in DOMAIN jobs') =>
          jobs'[j].status = "queued"
    /\ j \in DOMAIN jobs =>
          /\ j \in DOMAIN jobs'
          /\ <<jobs[j].status, jobs'[j].status>> \in
                 {<<"queued", "queued">>, <<"queued", "running">>,
                  <<"running", "running">>, <<"running", "completed">>,
                  <<"running", "failed">>, <<"completed", "completed">>,
                  <<"failed", "failed">>}
          /\ jobs[j].status \in Terminal => jobs'[j] = jobs[j]

JobLifecycle == [][\A j \in JobIds : JobStatusStep(j)]_vars

JobLifecycleWitness ==
    \E j \in DOMAIN jobs :
        /\ jobs[j].status = "failed"
        /\ ctx[j].pc = "done"
        /\ jobs[j].completed_tests + jobs[j].failed_tests >= 1

(* C6: in every job row, progress = (completed_tests + failed_tests) /
   total_tests * 100 whenever total_tests > 0, and progress = 0 when
   total_tests = 0, after create_job and after every update_job_status. *)
JobProgressInvariant ==
    \A j \in DOMAIN jobs :
        IF jobs[j].total_tests > 0
        THEN /\ jobs[j].progress.den # 0
             /\ jobs[j].progress.num * jobs[j].total_tests =
                   (jobs[j].completed_tests + jobs[j].failed_tests) * 100
                       * jobs[j].progress.den
        ELSE jobs[j].progress.num = 0

JobProgressWitness ==
    \E j \in DOMAIN jobs :
        /\ jobs[j].status = "running"
        /\ jobs[j].total_tests = 2
        /\ jobs[j].completed_tests = 1
        /\ jobs[j].failed_tests = 1
        /\ jobs[j].progress = Ratio(200, 2)

(* C7: in every test result row, pass_rate = passed_validations /
   total_validations * 100 whenever total_validations > 0, and pass_rate = 0
   when total_validations = 0, after every update_test_result. *)
TestPassRateInvariant ==
    \A i \in DOMAIN test_results :
        LET tr == test_results[i] IN
        IF tr.total_validations > 0
        THEN /\ tr.pass_rate.den # 0
             /\ tr.pass_rate.num * tr.total_validations =
                   tr.passed_validations * 100 * tr.pass_rate.den
        ELSE tr.pass_rate.num = 0

(* C8: when a test is over, its TestResult's total_validations is the number
   of validation results recorded under its turns, passed_validations the
   number of those that passed and failed_validations the rest. *)
TestCountersDerived ==
    \A r \in DOMAIN test_results :
        test_results[r].status \in Terminal =>
            LET recorded == ResultsOfRow(r)
                passed == {k \in recorded : validation_results[k].is_passed}
            IN  /\ test_results[r].total_validations = Cardinality(recorded)
                /\ test_results[r].passed_validations = Cardinality(passed)
                /\ test_results[r].failed_validations =
                       Cardinality(recorded) - Cardinality(passed)

(* C9: in every state a query can read, each turn's validations_total is the
   number of validation results stored for it, validations_passed the number
   of those that passed, validations_failed the difference. *)
TurnCountsCurrent ==
    \A t \in DOMAIN turn_results :
        LET stored == ResultsOfTurn(t)
            passed == {k \in stored : validation_results[k].is_passed}
        IN  /\ turn_results[t].validations_total = Cardinality(stored)
            /\ turn_results[t].validations_passed = Cardinality(passed)
            /\ turn_results[t].validations_failed =
                   Cardinality(stored) - Cardinality(passed)

TurnCountsWitness ==
    \E t \in DOMAIN turn_results :
        /\ Cardinality(ResultsOfTurn(t)) = 2
        /\ turn_results[t].validations_total = 2
        /\ turn_results[t].validations_passed = 1
        /\ turn_results[t].validations_failed = 1

(* C10: whenever a call of stop() returns, no task that a worker started
   executing is still in flight. *)
StopDrains == \A c \in Callers : cstate[c].seen = {}

(* C11: once running is false, no worker begins executing a job: every step
   in which a worker goes from not executing to executing is taken while
   running is true. *)
StopStopsAdmission ==
    [][\A w \in WorkerIds :
          (wstate[w].pc # "exec" /\ wstate'[w].pc = "exec") => running]_vars

(* C12: a stop() called on a running pool returns with the queue empty, no
   live worker and no active job id; a job it discarded stays discarded. *)
StopReturns(c) ==
    \/ /\ cstate[c].pc \in {"stop_gather", "restart_gather"}
       /\ cstate'[c].pc \notin {"stop_gather", "restart_gather"}
    \/ /\ cstate[c].pc = "idle"
       /\ running /\ ~running'
       /\ workers = {}

StopClearsBacklog ==
    [][/\ \A c \in Callers :
             StopReturns(c) =>
                 queue' = <<>> /\ workers' = {} /\ active_jobs' = {}
       /\ \A q \in QueueJobs :
             jstate[q] = "discarded" => jstate'[q] = "discarded"]_vars

(* C13: with max_workers = 1 jobs are executed one at a time in enqueue
   order: when a job's task has started, every job enqueued before it has
   ended (returned or raised) unless a stop() discarded it. *)
TaskStarted == {"running", "returned", "raised"}

SingleWorkerFifo ==
    /\ Cardinality({w \in WorkerIds : wstate[w].pc = "exec"}) <= 1
    /\ \A a, b \in QueueJobs :
          (a < b /\ jstate[b] \in TaskStarted) =>
              jstate[a] \in {"returned", "raised", "discarded"}

(* Both jobs were enqueued; the first has ended and the second is running. *)
SingleWorkerFifoWitness ==
    /\ running
    /\ jstate[1] \in {"returned", "raised"}
    /\ jstate[2] = "running"

(* C14: within a job, whatever the other job does, the TestResult of a test
   is created only after every earlier test of the job is completed or
   failed; a turn's result is persisted only after the earlier turns of the
   test and all their validation results; and a message is sent only when
   every earlier turn of the test is persisted with all its validations. *)
TurnPersisted(j, i, r, u) ==
    \E t \in TurnsOfRow(r) :
        /\ turn_results[t].order = u
        /\ Cardinality(ResultsOfTurn(t)) = tests[j][i].turns[u].validations

BoundedConcurrency ==
    /\ Cardinality(workers) <= max_workers
    /\ Cardinality(InFlight) <= max_workers

(* C16: the active job ids are exactly the ids of the jobs some worker is
   executing, whether earlier tasks returned or raised. *)
ActiveJobsAccurate == active_jobs = InFlight

(* One task raised and was deregistered while another is still executing. *)
ActiveJobsWitness ==
    /\ jstate[1] = "raised"
    /\ jstate[2] = "running"
    /\ active_jobs = {2}

(* C17: when a task raises, its job leaves the active set and the worker
   that ran it stays alive, waiting for the next job, as long as the pool is
   running: the number of live workers does not drop. *)
FailingTaskKeepsWorker ==
    [][\A w \in WorkerIds :
          (wstate[w].pc = "exec" /\ jstate'[wstate[w].job] = "raised") =>
              /\ wstate[w].job \notin active_jobs'
              /\ running =>
                    /\ w \in workers'
                    /\ wstate'[w].pc = "get"
                    /\ Cardinality(workers') = Cardinality(workers)]_vars

(* After the first job raised, both workers are alive and one of them is
   executing the second job. *)
FailingTaskWitness ==
    /\ running
    /\ jstate[1] = "raised"
    /\ Cardinality(workers) = 2
    /\ \E w \in workers : wstate[w].pc = "exec" /\ wstate[w].job = 2

(* C18: enqueue_job appends exactly one item to the queue in one step,
   whatever the state of the pool; and a job enqueued while running was
   false stays in the queue until it is executed on a running pool. *)
Enqueued(q) == jstate[q] = "new" /\ jstate'[q] # "new"

Quiescent ==
    /\ ~running
    /\ workers = {}
    /\ \A c \in Callers : cstate[c].pc \notin {"stop_gather", "restart_gather"}

ElasticSpawn ==
    [][/\ \A c \in Callers : ~cstate'[c].short
       /\ \A q \in QueueJobs :
             Enqueued(q) =>
                 IF running THEN Cardinality(workers') >= max_workers
                 ELSE workers' = workers]_vars

(* C19, amended: when enqueue_job returns on a running pool, or when a
   start() that found the pool stopped returns, at least max_workers workers
   are alive; on a stopped pool enqueue_job spawns no worker.  (A start() on
   a pool already running returns without spawning.) *)
ElasticSpawnOnEnqueue ==
    [][/\ (~running /\ running') => Cardinality(workers') >= max_workers
       /\ \A q \in QueueJobs :
             Enqueued(q) =>
                 IF running THEN Cardinality(workers') >= max_workers
                 ELSE workers' = workers]_vars

(* Two workers under a limit of two: one executing the first job, one just
   created by the enqueue of the second. *)
ElasticSpawnWitness ==
    /\ running
    /\ max_workers = 2
    /\ jstate[1] = "running"
    /\ jstate[2] = "queued"
    /\ \E w \in workers : wstate[w].pc = "new"

(* C20: when an error is raised in execute_batch outside every test's try
   block (creating the job row or a TestResult, a job status update before
   or between tests), the batch ends with its Job failed, the error message
   recorded and completed_at set, and no later test is started. *)
BatchLevelFailure ==
    \A j \in JobIds :
        (j \in DOMAIN tests /\ ctx[j].batch_error /\ ctx[j].pc = "done") =>
            /\ j \in DOMAIN jobs
            /\ jobs[j].status = "failed"
            /\ jobs[j].error # None
            /\ jobs[j].completed_at
            /\ \A i \in DOMAIN tests[j] : i >= ctx[j].ti => ~HasRow(j, i)

(* The sum of response_time_ms over the turn results in S. *)
RECURSIVE SumTimes(_)
SumTimes(S) ==
    IF S = {} THEN 0
    ELSE LET t == CHOOSE x \in S : TRUE
         IN  turn_results[t].response_time_ms + SumTimes(S \ {t})

MeanTime(S) ==
    IF S = {} THEN Ratio(0, 1) ELSE Ratio(SumTimes(S), Cardinality(S))

(* C27: the avg_response_time of every completed or failed TestResult is the
   mean of the response_time_ms of the turn results stored for it, and 0
   when it has none. *)
TestAvgResponseTime ==
    \A r \in DOMAIN test_results :
        test_results[r].status \in Terminal =>
            RatEq(test_results[r].avg_response_time, MeanTime(TurnsOfRow(r)))

(* The turn results of all the tests of job j. *)
TurnsOfJob(j) ==
    {t \in DOMAIN turn_results :
        test_results[turn_results[t].test_result_id].job_id = j}

(* C28: the avg_response_time reported by get_batch_results is the sum of
   response_time_ms over all turn results of the job divided by their
   number, and 0 when the job has none. *)
BatchAvgResponseTime ==
    \A j \in DOMAIN jobs :
        LET report == get_batch_results(jobs, test_results, turn_results,
                                        validation_results, j, FALSE)
        IN  /\ report # None
            /\ RatEq(report[1].avg_response_time, MeanTime(TurnsOfJob(j)))

(* A finished job whose first test has two turns and whose second has none:
   the report gives the mean over the two turns, not the mean of the two
   tests' means. *)
BatchAvgWitness ==
    \E j \in DOMAIN jobs :
        LET report == get_batch_results(jobs, test_results, turn_results,
                                        validation_results, j, FALSE)
        IN  /\ jobs[j].status = "completed"
            /\ Len(test_results) = 2
            /\ Cardinality(TurnsOfRow(1)) = 2
            /\ TurnsOfRow(2) = {}
            /\ SumTimes(TurnsOfRow(1)) > 0
            /\ RatEq(report[1].avg_response_time,
                     Ratio(SumTimes(TurnsOfRow(1)), 2))
            /\ ~RatEq(report[1].avg_response_time,
                      Ratio(SumTimes(TurnsOfRow(1)), 4))

(* C29: every Job whose status is completed or failed has completed_at
   set, and so has every TestResult whose status is completed or failed. *)
TerminalHasCompletedAt ==
    /\ \A j \in DOMAIN jobs :
          jobs[j].status \in Terminal => jobs[j].completed_at
    /\ \A r \in DOMAIN test_results :
          test_results[r].status \in Terminal => test_results[r].completed_at

(* A finished job with a completed and a failed test. *)
TerminalWitness ==
    \E j \in DOMAIN jobs :
        /\ jobs[j].status = "completed"
        /\ \E r \in DOMAIN test_results : test_results[r].status = "completed"
        /\ \E r \in DOMAIN test_results : test_results[r].status = "failed"

(* text occurs in str at some offset. *)
Substring(text, str) ==
    \E i \in 0..Len(str) :
        /\ i + Len(text) <= Len(str)
        /\ \A k \in 1..Len(text) : str[i + k] = text[k]

LowerCased(str) == [i \in 1..Len(str) |-> IF str[i] = "A" THEN "a" ELSE str[i]]

(* C30: a contains validation passes exactly when the text parameter is a
   substring of the response, compared as given when case_sensitive is true
   or absent and after lowercasing both when it is false; the score is 1.0
   when it passes and 0.0 otherwise. *)
ContainsValidation ==
    (vcall # None /\ vcall.result # None
        /\ "text" \in DOMAIN vcall.parameters) =>
        LET result == vcall.result[1]
            text == vcall.parameters["text"]
            sensitive == IF "case_sensitive" \in DOMAIN vcall.parameters
                         THEN vcall.parameters["case_sensitive"] ELSE TRUE
            expected == IF sensitive THEN Substring(text, vcall.response)
                        ELSE Substring(LowerCased(text),
                                       LowerCased(vcall.response))
        IN  /\ result.passed = expected
            /\ RatEq(result.score, IF expected THEN Ratio(1, 1) ELSE Ratio(0, 1))

(* "A" against "ba" passes when the case is ignored. *)
ContainsWitness ==
    /\ vcall # None
    /\ vcall.response = <<"b", "a">>
    /\ vcall.parameters = [text |-> <<"A">>, case_sensitive |-> FALSE]
    /\ vcall.result # None
    /\ vcall.result[1].passed
    /\ vcall.result[1].score = Ratio(1, 1)

(* The mapping `after` has the keys and values of `before`, but for key. *)
SameBut(before, after, key) ==
    /\ DOMAIN after \ {key} = DOMAIN before \ {key}
    /\ \A k \in DOMAIN before \ {key} : after[k] = before[k]

EndsWith(str, suffix) ==
    /\ Len(suffix) <= Len(str)
    /\ \A k \in 1..Len(suffix) :
          str[Len(str) - Len(suffix) + k] = suffix[k]

(* C26: the parameters returned by _update_validation_params differ from
   those given only when the scraped content is non-empty and the type is
   contextual_relevancy or faithfulness: then context is the old context
   followed by the scraped content, or the scraped content alone; every
   other key is as given; and the caller's mapping is as it was defined,
   call after call. *)
ValidationParamsFrame ==
    pcall # None =>
        /\ pcall.parameters = pcall.original
        /\ pcall.returned # None =>
              LET given == pcall.original
                  got == pcall.returned[1]
                  content == pcall.scraped_content
                  augmented ==
                      /\ content # None
                      /\ content[1] # <<>>
                      /\ pcall.validation_type \in
                             {"contextual_relevancy", "faithfulness"}
              IN  /\ SameBut(given, got, "context")
                  /\ ~augmented => got = given
                  /\ augmented =>
                        /\ "context" \in DOMAIN got
                        /\ IF "context" \in DOMAIN given
                           THEN /\ StartsWith(got["context"], given["context"])
                                /\ EndsWith(got["context"], content[1])
                                /\ Len(got["context"]) >=
                                      Len(given["context"]) + Len(content[1])
                           ELSE got["context"] = content[1]

(* A faithfulness definition with a context, called with scraped content:
   the returned context is longer, the definition is untouched. *)
ValidationParamsWitness ==
    /\ pcall # None
    /\ pcall.validation_type = "faithfulness"
    /\ pcall.original = [context |-> <<"a">>, threshold |-> <<"b">>]
    /\ pcall.scraped_content = Some(<<"b", "a">>)
    /\ pcall.returned = Some([context |-> <<"a", "\n", "\n", "b", "a">>,
                              threshold |-> <<"b">>])
    /\ pcall.parameters = pcall.original

IsPiece(x) == x.kind # "newline"

(* C25: scrape_urls always returns; its output holds, in the order of the
   URLs given, an error annotation naming each URL whose fetch raised and
   the content of each URL that gave a non-empty text, and nothing else; for
   an empty list it is the empty string. *)
ScrapeIsolation ==
    scrape # None =>
        /\ (scrape.output = None /\ scrape.pos > Len(scrape.urls)) =>
              ENABLED ScrapeReturn
        /\ scrape.output # None =>
              LET kept == Ascending({i \in 1..Len(scrape.urls) :
                                        scrape.outcomes[i] # "empty"})
                  pieces == SelectSeq(scrape.output[1], IsPiece)
              IN  /\ Len(scrape.outcomes) = Len(scrape.urls)
                  /\ Len(pieces) = Len(kept)
                  /\ \A k \in 1..Len(kept) :
                        /\ pieces[k].url = scrape.urls[kept[k]]
                        /\ pieces[k].kind =
                              IF scrape.outcomes[kept[k]] = "raises"
                              THEN "error" ELSE "content"
                  /\ scrape.urls = <<>> => scrape.output[1] = <<>>

(* Three URLs, the second of which failed: its annotation stands between
   the contents of the other two. *)
ScrapeIsolationWitness ==
    /\ scrape # None
    /\ scrape.urls = <<"u1", "u2", "u1">>
    /\ scrape.outcomes = <<"text", "raises", "text">>
    /\ scrape.output # None
    /\ Len(SelectSeq(scrape.output[1], IsPiece)) = 3
    /\ SelectSeq(scrape.output[1], IsPiece)[1].kind = "content"
    /\ SelectSeq(scrape.output[1], IsPiece)[2].kind = "error"
    /\ SelectSeq(scrape.output[1], IsPiece)[3].kind = "content"

(* C22: end_session never raises.  Called with an id that is not in the
   session map it makes no remote request and leaves the map as it was;
   called with an id that is in the map it removes that record and no other,
   whether the remote deletion answers 200, answers another status or
   fails; a second call right after it, whatever the remote side would
   answer, makes no request and changes nothing. *)
EndSessionBestEffort ==
    (agent.last # None /\ agent.last[1].op = "end_session") =>
        LET l == agent.last[1]
            id == l.session_id[1]
        IN  /\ ~l.raised
            /\ id \notin l.before =>
                  (l.requests = <<>> /\ sessions = l.before)
            /\ id \in l.before =>
                  (l.requests = <<"delete">> /\ sessions = l.before \ {id})
            /\ \A outcome \in RemoteOutcomes :
                  end_session(sessions, id, outcome) =
                      [sessions |-> sessions, raised |-> FALSE,
                       requests |-> <<>>]

(* A known session was ended while the remote deletion failed in transport. *)
EndSessionWitness ==
    /\ agent.last # None
    /\ agent.last[1].op = "end_session"
    /\ agent.last[1].outcome = <<"raises">>
    /\ agent.last[1].session_id[1] \in agent.last[1].before
    /\ agent.last[1].session_id[1] \notin sessions
    /\ sessions # {}

(* C23: send_message succeeds only for an id that a successful
   start_session returned and that has not been ended since; for any other
   id it raises without a remote request and without changing the session
   map.  A start_session that fails, at the credentials, at the token
   exchange or at the session open, adds no entry.  The map holds exactly
   the ids returned and not ended since. *)
SessionValidity ==
    /\ sessions = agent.valid
    /\ (agent.last # None /\ agent.last[1].op = "send_message") =>
          LET l == agent.last[1]
          IN  /\ ~l.raised => l.session_id[1] \in l.valid
              /\ l.session_id[1] \notin l.valid =>
                    (l.raised /\ l.requests = <<>>)
              /\ sessions = l.before
    /\ (agent.last # None /\ agent.last[1].op = "start_session"
            /\ agent.last[1].raised) =>
          (sessions = agent.last[1].before /\ agent.last[1].session_id = None)

(* A message was refused, without a request, for an id that is not live
   while another session is open. *)
SessionValidityWitness ==
    /\ agent.last # None
    /\ agent.last[1].op = "send_message"
    /\ agent.last[1].raised
    /\ agent.last[1].requests = <<>>
    /\ agent.last[1].session_id[1] \notin agent.valid
    /\ agent.valid # {}


(* C21: with any of the four credential fields absent or empty,
   start_session raises without a token request or a session open and
   leaves the session map as it was.  In the engine such a test calls
   start_session once, sends no message, and, when its failure is recorded,
   its row is failed with no turn result and the engine is at the head of
   the test loop with the next test. *)
ConfigErrorFailsFast ==
    /\ [](\A j \in JobIds :
            ctx[j].pc = "start_session" =>
                \A credentials \in Credentials \ {FullCredentials},
                   token \in RemoteOutcomes, open \in OpenOutcomes :
                   start_session(sessions, credentials, token, open,
                                 ctx[j].test_result) =
                       [sessions |-> sessions, raised |-> TRUE,
                        requests |-> <<>>, session_id |-> None])
    /\ [][\A j \in JobIds :
             LET c == ctx[j]
                 c2 == ctx'[j]
             IN  /\ (c.pc = "start_session" /\ c2.pc # "start_session"
                         /\ ~CredentialsOk(Test(j).credentials)) =>
                       /\ sessions' = sessions
                       /\ faults' = faults
                       /\ c2.requests = <<>>
                       /\ c2.start_calls = 1
                       /\ c2.send_calls = 0
                       /\ c2.session_id = None
                       /\ c2.pc = "test_except"
                 /\ (c.pc = "test_except" /\ c.requests = <<>>
                         /\ c2.pc = "next_test") =>
                       /\ c.start_calls = 1
                       /\ c.send_calls = 0
                       /\ test_results'[c.test_result].status = "failed"
                       /\ test_results'[c.test_result].completed_at
                       /\ \A t \in DOMAIN turn_results' :
                             turn_results'[t].test_result_id # c.test_result
                       /\ sessions' = sessions
                       /\ c2.ti = c.ti + 1
       ]_vars

(* The first test of a batch lacked a credential and is failed without a
   turn result; the second test was then executed with a turn and is
   completed. *)
ConfigErrorWitness ==
    \E j \in JobIds :
        /\ Len(tests[j]) >= 2
        /\ ~CredentialsOk(tests[j][1].credentials)
        /\ ctx[j].pc = "done"
        /\ \E r1, r2 \in DOMAIN test_results :
              /\ r1 < r2
              /\ test_results[r1].job_id = j
              /\ test_results[r2].job_id = j
              /\ test_results[r1].status = "failed"
              /\ test_results[r1].error = Some("missing credentials")
              /\ test_results[r2].status = "completed"
              /\ \A t \in DOMAIN turn_results :
                    turn_results[t].test_result_id # r1
              /\ \E t \in DOMAIN turn_results :
                    turn_results[t].test_result_id = r2

(* C24: when the fetch of scraped content raises in a turn, the turn result
   is still stored, with no scraped content, the test's try block is not
   left, every validation of the turn gets its parameters as given, whatever
   its type, and after the last validation the turn loop goes on with the
   next turn of the same test; when the response names no URL, scrape_urls
   is not called. *)
ScrapeFailureSwallowed ==
    /\ [](\A j \in JobIds :
            (ctx[j].scrape = "scrape_error"
                 /\ ctx[j].pc \in {"validate", "validate_sleep",
                                   "record_validation"}) =>
                /\ ctx[j].scraped_content = None
                /\ ctx[j].turn_result \in DOMAIN turn_results
                /\ turn_results[ctx[j].turn_result].scraped_content = None
                /\ turn_results[ctx[j].turn_result].order = ctx[j].ui
                /\ \A validation_type \in ValidationTypes,
                      parameters \in ValidationParameters :
                      update_validation_params(validation_type, parameters,
                          ctx[j].scraped_content).returned = parameters)
    /\ [][\A j \in JobIds :
             LET c == ctx[j]
                 c2 == ctx'[j]
             IN  /\ (c.pc = "scrape" /\ c2.pc # "scrape"
                         /\ c2.scrape = "no_urls") =>
                       c2.scrape_calls = 0
                 /\ (c.pc = "scrape" /\ c2.pc # "scrape"
                         /\ c2.scrape = "scrape_error") =>
                       /\ c2.scrape_calls = 1
                       /\ c2.error = None
                       /\ c2.raised = c.raised
                       /\ Len(turn_results') = Len(turn_results) + 1
                       /\ turn_results'[Len(turn_results')] =
                              create_turn_result(c.test_result, c.ui, None,
                                  c2.response_times[Len(c2.response_times)])
                       /\ \/ c2.pc = "validate" /\ c2.ui = c.ui
                          \/ c2.pc = "next_turn" /\ c2.ui = c.ui + 1
                       /\ c2.ti = c.ti
                 /\ (c.scrape = "scrape_error"
                         /\ c.pc \in {"validate", "validate_sleep",
                                      "record_validation"}) =>
                       /\ c2.ti = c.ti
                       /\ c2.error = None
                       /\ \/ c2.pc \in {"validate", "validate_sleep",
                                        "record_validation"}
                                /\ c2.ui = c.ui
                          \/ c2.pc = "next_turn" /\ c2.ui = c.ui + 1
       ]_vars

(* The scrape of the first turn of a test raised; the turn and its
   validation are stored, and the second turn is being sent. *)
ScrapeFailureWitness ==
    \E j \in JobIds :
        /\ ctx[j].scrape = "scrape_error"
        /\ ctx[j].pc = "send"
        /\ ctx[j].ui = 2
        /\ \E t \in DOMAIN turn_results :
              /\ turn_results[t].test_result_id = ctx[j].test_result
              /\ turn_results[t].order = 1
              /\ turn_results[t].scraped_content = None
              /\ \E v \in DOMAIN validation_results :
                    validation_results[v].turn_result_id = t

(* C34 as stated: send_message is invoked at most twice for one turn. *)
SendAtMostTwice ==
    \A j \in JobIds : ctx[j].send_calls <= 2

(* C34: send_message is invoked at most max_retries = 3 times for one turn,
   that is at most two calls beyond the first, whatever the pattern of
   failures; a call after the first is made only after a failed one, so the
   number of sleeps is the number of failed calls not yet followed by the
   error leaving the loop. *)
SendAtMostThrice ==
    \A j \in JobIds :
        /\ ctx[j].send_calls <= max_retries
        /\ ctx[j].sleeps <= max_retries - 1
        /\ ctx[j].pc = "scrape" => ctx[j].sleeps = ctx[j].send_calls - 1

(* A turn whose message was sent three times: twice failing, then answered. *)
SendThriceWitness ==
    \E j \in JobIds :
        /\ ctx[j].pc = "scrape"
        /\ ctx[j].send_calls = 3
        /\ ctx[j].sleeps = 2

(* C31: every URL that extract_urls returns is complete with its path and
   query string: where the URL was found in the text, it is not followed by
   a slash or a question mark that the result leaves out; the URLs are
   returned in order of appearance, duplicates included, and a text without
   a scheme gives the empty list. *)
ExtractUrlsComplete ==
    ucall.urls # None =>
        LET text == ucall.text
            urls == ucall.urls[1]
            spans == findall(text, 1)
        IN  /\ Len(urls) = Len(spans)
            /\ \A k \in DOMAIN urls :
                  /\ urls[k] = SubSeq(text, spans[k][1], spans[k][2] - 1)
                  /\ k > 1 => spans[k - 1][2] <= spans[k][1]
                  /\ spans[k][2] <= Len(text) =>
                        text[spans[k][2]] \notin {"/", "?"}
            /\ (\A i \in 1..Len(text) : SchemeEnd(text, i) = 0) =>
                  urls = <<>>

(* A report with the scraped content of every turn blanked. *)
WithoutScraped(report) ==
    [report EXCEPT !.test_results =
        [k \in DOMAIN @ |->
            [@[k] EXCEPT !.turn_results =
                [m \in DOMAIN @ |-> [@[m] EXCEPT !.scraped_content = None]]]]]

(* C32: a results request answered for a known job gives, with
   include_scraped_content false, a report whose turns all have no scraped
   content, and with it true, a report whose turns carry the stored scraped
   content; the two reports are equal in every other field; the request
   changes no row of the four tables. *)
ScrapedContentDisclosure ==
    /\ []((qcall # None /\ qcall[1].op = "results"
              /\ qcall[1].job_id \in DOMAIN jobs) =>
            LET j == qcall[1].job_id
                off == get_batch_results(jobs, test_results, turn_results,
                                         validation_results, j, FALSE)[1]
                on == get_batch_results(jobs, test_results, turn_results,
                                        validation_results, j, TRUE)[1]
                rows == Ascending({r \in DOMAIN test_results :
                                      test_results[r].job_id = j})
            IN  /\ qcall[1].answer.http = 200
                /\ qcall[1].answer.body =
                       Some(IF qcall[1].include_scraped_content
                            THEN on ELSE off)
                /\ Len(off.test_results) = Len(rows)
                /\ Len(on.test_results) = Len(rows)
                /\ \A k \in DOMAIN rows :
                      LET ids == Ascending({t \in DOMAIN turn_results :
                                  turn_results[t].test_result_id = rows[k]})
                      IN  /\ Len(off.test_results[k].turn_results) = Len(ids)
                          /\ Len(on.test_results[k].turn_results) = Len(ids)
                          /\ \A m \in DOMAIN ids :
                                /\ off.test_results[k].turn_results[m]
                                      .scraped_content = None
                                /\ on.test_results[k].turn_results[m]
                                      .scraped_content =
                                      turn_results[ids[m]].scraped_content
                /\ WithoutScraped(on) = off)
    /\ [][(qcall' # qcall /\ qcall' # None /\ qcall'[1].op = "results") =>
             UNCHANGED <<jobs, test_results, turn_results,
                         validation_results>>]_vars

(* A results request without the flag is answered while a turn of the job
   has scraped content stored. *)
ScrapedContentWitness ==
    /\ qcall # None
    /\ qcall[1].op = "results"
    /\ ~qcall[1].include_scraped_content
    /\ qcall[1].answer.http = 200
    /\ \E t \in DOMAIN turn_results :
          /\ turn_results[t].scraped_content # None
          /\ test_results[turn_results[t].test_result_id].job_id =
                 qcall[1].job_id

(* C33: a status request and a results request for a job id without a
   record are answered 404, with no body, and change no row. *)
UnknownJobNotFound ==
    /\ []((qcall # None /\ qcall[1].job_id \notin DOMAIN jobs) =>
            (qcall[1].answer.http = 404 /\ qcall[1].answer.body = None))
    /\ [][(qcall' # qcall /\ qcall' # None) =>
             UNCHANGED <<jobs, test_results, turn_results,
                         validation_results, sessions>>]_vars

(* The TestResult rows of job j, and those in a given status. *)
RowsOfJob(j) == {r \in DOMAIN test_results : test_results[r].job_id = j}

RowsInStatus(j, status) ==
    {r \in RowsOfJob(j) : test_results[r].status = status}

(* C37: for every job row, completed_tests counts the job's TestResults
   in status completed and failed_tests those in status failed, so their sum
   is the number of terminal TestResults; the sum is at most total_tests; no
   test of the job has two TestResults; the sum is total_tests when the job
   is completed; and a TestResult in status completed or failed keeps its
   status in every step. *)
TestAccounting ==
    /\ [](\A j \in DOMAIN jobs :
            /\ jobs[j].completed_tests =
                   Cardinality(RowsInStatus(j, "completed"))
            /\ jobs[j].failed_tests = Cardinality(RowsInStatus(j, "failed"))
            /\ jobs[j].completed_tests + jobs[j].failed_tests =
                   Cardinality(RowsInStatus(j, "completed")
                                  \cup RowsInStatus(j, "failed"))
            /\ jobs[j].completed_tests + jobs[j].failed_tests
                   <= jobs[j].total_tests
            /\ \A r1, r2 \in RowsOfJob(j) :
                  test_results[r1].test_id = test_results[r2].test_id
                      => r1 = r2
            /\ jobs[j].status = "completed" =>
                  jobs[j].completed_tests + jobs[j].failed_tests =
                      jobs[j].total_tests)
    /\ [][\A r \in DOMAIN test_results :
             test_results[r].status \in {"completed", "failed"} =>
                 test_results'[r].status = test_results[r].status]_vars

(* A completed job that counted a completed test and a failed one. *)
TestAccountingWitness ==
    \E j \in DOMAIN jobs :
        /\ jobs[j].status = "completed"
        /\ jobs[j].completed_tests = 1
        /\ jobs[j].failed_tests = 1
        /\ jobs[j].total_tests = 2

(* The job a row of each table belongs to. *)
OwnerOfTest(tsts, r) == tsts[r].job_id

OwnerOfTurn(tsts, trs, t) == OwnerOfTest(tsts, trs[t].test_result_id)

OwnerOfValidation(tsts, trs, vrs, v) ==
    OwnerOfTurn(tsts, trs, vrs[v].turn_result_id)

(* A step leaves all that is stored of job j as it is: its row, its
   TestResults, TurnResults and ValidationResults, and it adds none. *)
RecordUntouched(j) ==
    /\ (j \in DOMAIN jobs) = (j \in DOMAIN jobs')
    /\ j \in DOMAIN jobs => jobs'[j] = jobs[j]
    /\ \A r \in DOMAIN test_results' :
          IF r \in DOMAIN test_results
          THEN OwnerOfTest(test_results, r) = j =>
                   test_results'[r] = test_results[r]
          ELSE OwnerOfTest(test_results', r) # j
    /\ \A t \in DOMAIN turn_results' :
          IF t \in DOMAIN turn_results
          THEN OwnerOfTurn(test_results, turn_results, t) = j =>
                   turn_results'[t] = turn_results[t]
          ELSE OwnerOfTurn(test_results', turn_results', t) # j
    /\ \A v \in DOMAIN validation_results' :
          IF v \in DOMAIN validation_results
          THEN OwnerOfValidation(test_results, turn_results,
                                 validation_results, v) = j =>
                   validation_results'[v] = validation_results[v]
          ELSE OwnerOfValidation(test_results', turn_results',
                                 validation_results', v) # j

(* C36: with two execute_batch calls interleaved, a step that is not a
   step of job j changes no row of job j in any table and adds none; each
   job's counters equal the numbers of its own completed and failed
   TestResults; and the final row of a job is the one its own execution
   gives: failed when an error left its batch, completed otherwise, with
   failed_tests the number of its tests whose try block raised and
   completed_tests the others. *)
CrossJobIsolation ==
    /\ [](\A j \in DOMAIN jobs :
            /\ jobs[j].completed_tests =
                   Cardinality(RowsInStatus(j, "completed"))
            /\ jobs[j].failed_tests = Cardinality(RowsInStatus(j, "failed"))
            /\ ctx[j].pc = "done" =>
                  /\ jobs[j].status =
                        IF ctx[j].batch_error THEN "failed" ELSE "completed"
                  /\ jobs[j].failed_tests = Cardinality(RaisedTests(j))
                  /\ ~ctx[j].batch_error =>
                        jobs[j].completed_tests =
                            Len(tests[j]) - Cardinality(RaisedTests(j)))
    /\ [][\A j \in PairIds :
             ctx'[j] = ctx[j] => RecordUntouched(j)]_vars

(* Both jobs are over, each with a completed test, after steps of one were
   taken while the other was under way. *)
CrossJobWitness ==
    /\ \A j \in PairIds :
          /\ j \in DOMAIN jobs
          /\ ctx[j].pc = "done"
          /\ jobs[j].status = "completed"
          /\ jobs[j].completed_tests = 1
    /\ \E r1, r2 \in DOMAIN test_results :
          /\ r1 < r2
          /\ test_results[r1].job_id = "B"
          /\ test_results[r2].job_id = "A"

(* C40: when a call of stop() that waited for the workers returns, the
   pool is not running; a stop() on a stopped pool and a start() on a
   running pool (here the two calls of restart_task_queue) change neither
   the flag, nor the workers, nor the queue. *)
StopReturnsStopped ==
    [][\A c \in Callers :
          /\ (/\ cstate[c].pc \in {"stop_gather", "restart_gather"}
              /\ cstate'[c].pc \notin {"stop_gather", "restart_gather"})
                 => ~running'
          /\ (cstate[c].pc = "idle" /\ cstate'[c].pc = "restart_sleep"
                 /\ ~running)
                 => UNCHANGED <<running, workers, queue>>
          /\ (cstate[c].pc = "restart_sleep" /\ cstate'[c].pc = "idle"
                 /\ running)
                 => UNCHANGED <<running, workers, queue>>]_vars

(* The places of job q in the queue. *)
Waiting(q) == {i \in DOMAIN queue : queue[i] = q}

Executed(q) == jstate[q] \in {"returned", "raised"}

(* No job is in the queue twice or while it is or was executed, no two
   workers execute the same job, and a task is started only for a job that
   waits and ended only once. *)
TakenAtMostOnce ==
    /\ [](\A q \in QueueJobs :
             /\ Cardinality(Waiting(q)) <= 1
             /\ Waiting(q) # {} <=> jstate[q] \in {"queued", "parked"}
             /\ Cardinality({w \in WorkerIds :
                    wstate[w].pc = "exec" /\ wstate[w].job = q}) <= 1
             /\ jstate[q] = "running" <=> q \in InFlight)
    /\ [][\A q \in QueueJobs :
             /\ (jstate[q] # "running" /\ jstate'[q] = "running")
                    => jstate[q] \in {"queued", "parked"}
             /\ Executed(q) => jstate'[q] = jstate[q]]_vars

(* The statement as made: on a running pool a waiting job is eventually
   executed, once. *)
ExactlyOnceIfRunning ==
    /\ TakenAtMostOnce
    /\ \A q \in QueueJobs :
          (jstate[q] \in {"queued", "parked"} /\ running) ~> Executed(q)

(* C38: every enqueued job is taken by at most one worker and its task is
   invoked at most once; while nobody calls stop(), a job that waits in the
   queue of a running pool with a live worker is eventually executed, and
   then only once. *)
ExactlyOnceWithWorker ==
    /\ TakenAtMostOnce
    /\ \A q \in QueueJobs :
          (jstate[q] \in {"queued", "parked"} /\ running /\ workers # {})
              ~> Executed(q)

(* Every job was executed on a pool that is still running with a live
   worker, the task of the first one having raised. *)
ExactlyOnceWitness ==
    /\ running
    /\ workers # {}
    /\ \A q \in QueueJobs : Executed(q)
    /\ jstate[1] = "raised"

(* C35: a job whose row is in status running eventually has it in status
   completed or failed, whatever start() and stop() calls are made on the
   queue meanwhile. *)
RunToCompletion ==
    \A j \in JobIds :
        (j \in DOMAIN jobs /\ jobs[j].status = "running")
            ~> (j \in DOMAIN jobs /\ jobs[j].status \in {"completed", "failed"})

(* The row of the job is in status running while stop() has turned the
   flag off and waits for the worker that executes the job. *)
RunToCompletionWitness ==
    /\ "A" \in DOMAIN jobs
    /\ jobs["A"].status = "running"
    /\ ~running
    /\ cstate["lifecycle"].pc = "stop_gather"
    /\ jstate[1] = "running"

(* C39: while a submitted job waits in the queue, and for good once
   stop() has discarded it, get_batch_status finds no record of it; and
   whenever a query can run, the status it finds, if any, is running,
   completed or failed, never queued. *)
JobRecordVisibility ==
    \A j \in JobIds :
        /\ jstate[QueueIdOf(j)] \in {"queued", "parked", "discarded"} =>
              get_batch_status(jobs, j) = None
        /\ (Observable /\ get_batch_status(jobs, j) # None) =>
              get_batch_status(jobs, j)[1].status
                  \in {"running", "completed", "failed"}

(* The submitted job was discarded by stop() and has no record. *)
JobDiscardedWitness ==
    /\ jstate[QueueIdOf("A")] = "discarded"
    /\ tests["A"] # <<>>
    /\ get_batch_status(jobs, "A") = None
    /\ Observable

====
